---------------------------- MODULE Spec2Model ----------------------------
(***************************************************************************)
(* SyncedIn: the content-selection constraint protocol.                    *)
(*                                                                         *)
(* The module models ResumeSelector (src/llm_selector.py): the constraint  *)
(* validator _validate_response, the response parser _parse_response, and  *)
(* the callers that turn a selection into a document (src/main.py,         *)
(* src/generate_page.py).                                                  *)
(*                                                                         *)
(* JSON values.  A Python dict is a function whose domain is its set of    *)
(* keys (a record), so that d.get(k, default) is Get(d, k, default) and    *)
(* d[k] raises KeyError exactly when k is not in DOMAIN d.  A value whose  *)
(* JSON type matters is tagged: [t |-> "dict", v |-> ...],                 *)
(* [t |-> "list", v |-> ...], [t |-> "null"].  A list of which the code    *)
(* only takes len() (bullets, projects, items, summaries) is held as its   *)
(* length.                                                                 *)
(***************************************************************************)
EXTENDS Integers, Sequences, FiniteSets, TLC

VARIABLES
    full_resume_data,   \* the corpus handed to _validate_response
    trimmed_data,       \* the parsed selection handed to _validate_response
    verdict,            \* what _validate_response did: not yet run, returned, raised
    caller,             \* who runs the generation: generate_resume or the generate page
    stage,              \* the statement the generation run has reached
    should_rewrite_selected,    \* the rewrite flag of the invocation
    selection_texts,    \* the bullet texts and project descriptions of trimmed_data:
                        \* "verbatim" when each is the corpus's text for its id
    credential,         \* whether an API key is configured (argument or environment)
    calls,              \* how often the run has called the generation service
    service,            \* what the generation service does in this invocation
    tools,              \* whether the template fills and lualatex exits with 0
    produced,           \* what the run has written or shown so far
    job_description,    \* the job description of the invocation
    request,            \* what _build_prompt_with_caching returned for the call
    stages_run,         \* the stages select_resume_content has completed, in order
    response_text,      \* the reply text handed to _parse_response
    text,               \* _parse_response's local variable text
    parse_pc,           \* the statement _parse_response has reached
    parsed,             \* the value _parse_response returned
    reply,              \* how the reply text was composed: the object and its wrapping
    data,               \* the corpus object the caller hands to a normalization
    before,             \* what that object held before the first call
    entry,              \* the normalization called
    passes,             \* how many calls have been made on the object
    outcome,            \* what the last call did: the value returned or the exception
    runner,             \* of each run that produces a document: a page session or generate_resume
    company_name,       \* the company name typed into each session
    pc,                 \* the statement each run has reached
    trimmed_object,     \* the object trimmed_data / st.session_state.trimmed_data of each run
    handed,             \* what fill_latex_template was last handed by each run
    version,            \* the local variable version of each run
    latest_saved_version,   \* st.session_state.latest_saved_version of each session
    runs,               \* the compiler runs of each run since its last fill
    regenerations,      \* how often each session has pressed Generate New PDF
    output_dir,         \* the files of each working directory
    company_dir,        \* the versioned files of each company folder
    user_text,          \* the string the fields of the data handed to fill_latex_template hold
    layout,             \* the formats of that data: its skills, summaries, links and settings
    template,           \* the insertions fill_latex_template has made: [field, text]
    fill_pc,            \* the statement fill_latex_template has reached
    global_config,      \* global_config.json: stored (the file exists) and its keys
    default_users,      \* the list object DEFAULT_GLOBAL_CONFIG['users'] of the process
    user_dirs,          \* the user names whose directories exist under BASE_DATA_DIR
    returned            \* the last call on the configuration: [op, arg, value]

vvars == <<full_resume_data, trimmed_data, verdict>>
gvars == <<caller, stage, job_description, request, stages_run, should_rewrite_selected, selection_texts, credential, calls, service, tools, produced>>
pvars == <<response_text, text, parse_pc, parsed, reply>>
mvars == <<data, before, entry, passes, outcome>>
fvars == <<user_text, layout, template, fill_pc>>
uvars == <<global_config, default_users, user_dirs, returned>>
svars == <<runner, company_name, pc, trimmed_object, handed, version, latest_saved_version, runs, regenerations, output_dir, company_dir>>
vars == <<vvars, gvars, pvars, mvars, svars, fvars, uvars>>

(***************************************************************************)
(* Bounds of the model.                                                    *)
(***************************************************************************)
MaxBullets == 2         \* bullets of one selected company
MaxProjects == 2        \* projects of a selection
MaxItems == 2           \* items of one selected skill section
MaxSummaries == 2       \* summaries of a selection

(***************************************************************************)
(* Defaults written in the validator (src/llm_selector.py).                *)
(***************************************************************************)
DefaultTotalMin == 16
DefaultTotalMax == 20
DefaultCompanyMin == 4
DefaultCompanyMax == 6
DefaultProjectsMin == 2
DefaultProjectsMax == 3
DefaultSkillMin == 0
DefaultSkillMax == 100

(***************************************************************************)
(* Python helpers.                                                         *)
(***************************************************************************)
EmptyDict == << >>

\* dict.get(key, default)
Get(d, key, default) == IF key \in DOMAIN d THEN d[key] ELSE default

\* a chained comparison  lo <= n <= hi
Between(lo, n, hi) == lo <= n /\ n <= hi

Range(s) == {s[i] : i \in DOMAIN s}

\* What a step of the validator yields: the issues it appended, or the
\* exception it raised.
Ok(issues) == [raised |-> FALSE, exc |-> "", issues |-> issues]
Raise(exc) == [raised |-> TRUE, exc |-> exc, issues |-> << >>]


\* One entry of the issue list.  The code formats a string; the model keeps
\* the data the string is built from.
Issue(check, subject, actual, lo, hi, missing) ==
    [check |-> check, subject |-> subject, actual |-> actual,
     lo |-> lo, hi |-> hi, missing |-> missing]

(***************************************************************************)
(* _validate_response, check by check.  Each check yields Ok(issues) or    *)
(* Raise(exception); an exception ends the call.                           *)
(***************************************************************************)

\* config = full_resume_data.get('config', {})
Config(corpus) == Get(corpus, "config", EmptyDict)

\* trimmed_data.get(key, default): AttributeError unless trimmed_data is a dict
IsDict(selection) == selection.t = "dict"
TrimmedGet(selection, key, default) == Get(selection.v, key, default)

EmptyList == [t |-> "list", v |-> << >>]
NoSkills == [t |-> "dict", v |-> EmptyDict]
NoSummaries == [t |-> "list", v |-> 0]

RECURSIVE SumBullets(_)
\* sum(len(company.get('bullets', [])) for company in companies)
SumBullets(companies) ==
    IF companies = << >> THEN 0
    ELSE Get(Head(companies), "bullets", 0) + SumBullets(Tail(companies))

\* a mutation of CheckTotalBullets: the total is held against its minimum alone
CheckTotalBulletsNoMax(selection, corpus) ==
    IF ~IsDict(selection) THEN Raise("AttributeError")
    ELSE LET companies == TrimmedGet(selection, "companies", EmptyList) IN
    IF companies.t # "list" THEN Raise("TypeError")
    ELSE LET total_bullets == SumBullets(companies.v)
             min_bullets == Get(Get(Config(corpus), "bullets", EmptyDict),
                                "total_min", DefaultTotalMin)
             max_bullets == Get(Get(Config(corpus), "bullets", EmptyDict),
                                "total_max", DefaultTotalMax)
         IN IF total_bullets < min_bullets
            THEN Ok(<<Issue("total_bullets", "", total_bullets,
                            min_bullets, max_bullets, {})>>)
            ELSE Ok(<< >>)

\* 1. total bullet count
CheckTotalBullets(selection, corpus) ==
    IF ~IsDict(selection) THEN Raise("AttributeError")
    ELSE LET companies == TrimmedGet(selection, "companies", EmptyList) IN
    IF companies.t # "list" THEN Raise("TypeError")
    ELSE LET total_bullets == SumBullets(companies.v)
             min_bullets == Get(Get(Config(corpus), "bullets", EmptyDict),
                                "total_min", DefaultTotalMin)
             max_bullets == Get(Get(Config(corpus), "bullets", EmptyDict),
                                "total_max", DefaultTotalMax)
         IN IF ~Between(min_bullets, total_bullets, max_bullets)
            THEN Ok(<<Issue("total_bullets", "", total_bullets,
                            min_bullets, max_bullets, {})>>)
            ELSE Ok(<< >>)

\* {c['id'] for c in companies}: KeyError when a company has no 'id'
AllHaveId(companies) == \A i \in DOMAIN companies : "id" \in DOMAIN companies[i]
IdSet(companies) == {companies[i].id : i \in DOMAIN companies}

\* the set comparison with the difference taken the wrong way round: only a
\* company the corpus does not have is reported
CheckCompanySetReversed(selection, corpus) ==
    LET original == Get(corpus, "companies", << >>)
        trimmed == TrimmedGet(selection, "companies", EmptyList).v
    IN IF ~AllHaveId(original) \/ ~AllHaveId(trimmed) THEN Raise("KeyError")
       ELSE IF IdSet(trimmed) \ IdSet(original) # {}
            THEN Ok(<<Issue("companies", "", 0, 0, 0,
                            IdSet(original) \ IdSet(trimmed))>>)
            ELSE Ok(<< >>)

\* 2. all companies present
CheckCompanySet(selection, corpus) ==
    LET original == Get(corpus, "companies", << >>)
        trimmed == TrimmedGet(selection, "companies", EmptyList).v
    IN IF ~AllHaveId(original) \/ ~AllHaveId(trimmed) THEN Raise("KeyError")
       ELSE IF IdSet(original) # IdSet(trimmed)
            THEN Ok(<<Issue("companies", "", 0, 0, 0,
                            IdSet(original) \ IdSet(trimmed))>>)
            ELSE Ok(<< >>)

\* next((c for c in full_resume_data['companies'] if c['id'] == company_id), None)
FirstWithId(companies, company_id) ==
    LET hits == {i \in DOMAIN companies : companies[i].id = company_id}
    IN IF hits = {} THEN 0 ELSE CHOOSE i \in hits : \A j \in hits : i <= j

\* the per-company loop body with the bounds compared strictly
CompanyIssuesStrict(company, corpus) ==
    LET company_id == company.id
        k == FirstWithId(corpus.companies, company_id)
    IN IF k = 0
       THEN <<Issue("company_not_found", company_id, 0, 0, 0, {})>>
       ELSE LET constraints == Get(corpus.companies[k], "bullet_constraints", EmptyDict)
                bullet_count == Get(company, "bullets", 0)
                min_count == Get(constraints, "min", DefaultCompanyMin)
                max_count == Get(constraints, "max", DefaultCompanyMax)
            IN IF ~(min_count < bullet_count /\ bullet_count < max_count)
               THEN <<Issue("company_bullets", company_id, bullet_count,
                            min_count, max_count, {})>>
               ELSE << >>

\* the body of the per-company loop for one selected company
CompanyIssues(company, corpus) ==
    LET company_id == company.id
        k == FirstWithId(corpus.companies, company_id)
    IN IF k = 0
       THEN <<Issue("company_not_found", company_id, 0, 0, 0, {})>>
       ELSE LET constraints == Get(corpus.companies[k], "bullet_constraints", EmptyDict)
                bullet_count == Get(company, "bullets", 0)
                min_count == Get(constraints, "min", DefaultCompanyMin)
                max_count == Get(constraints, "max", DefaultCompanyMax)
            IN IF ~Between(min_count, bullet_count, max_count)
               THEN <<Issue("company_bullets", company_id, bullet_count,
                            min_count, max_count, {})>>
               ELSE << >>

RECURSIVE PerCompanyLoop(_, _)
PerCompanyLoop(companies, corpus) ==
    IF companies = << >> THEN << >>
    ELSE CompanyIssues(Head(companies), corpus)
             \o PerCompanyLoop(Tail(companies), corpus)

\* 3. per-company bullet constraints
CheckPerCompany(selection, corpus) ==
    LET trimmed == TrimmedGet(selection, "companies", EmptyList).v
    IN IF trimmed = << >> THEN Ok(<< >>)
       ELSE IF "companies" \notin DOMAIN corpus THEN Raise("KeyError")
       ELSE Ok(PerCompanyLoop(trimmed, corpus))

\* 4. project count
CheckProjects(selection, corpus) ==
    LET projects == TrimmedGet(selection, "projects", [t |-> "list", v |-> 0]) IN
    IF projects.t # "list" THEN Raise("TypeError")
    ELSE LET project_count == projects.v
             min_projects == Get(Get(Config(corpus), "projects", EmptyDict),
                                 "min", DefaultProjectsMin)
             max_projects == Get(Get(Config(corpus), "projects", EmptyDict),
                                 "max", DefaultProjectsMax)
         IN IF ~Between(min_projects, project_count, max_projects)
            THEN Ok(<<Issue("projects", "", project_count,
                            min_projects, max_projects, {})>>)
            ELSE Ok(<< >>)

\* skill_category in trimmed_data.get('skills', {}): a key of a dict; never an
\* element of a list of sections (a string equals no dict)
CategoryInSkills(skill_category, skills) ==
    /\ skills.t = "dict"
    /\ skill_category \in DOMAIN skills.v

\* the body of the skills loop for one item of config.skills_per_category
SkillIssues(item, skills) ==
    IF CategoryInSkills(item.key, skills)
    THEN LET count == skills.v[item.key]
             min_count == Get(item.constraints, "min", DefaultSkillMin)
             max_count == Get(item.constraints, "max", DefaultSkillMax)
         IN IF ~Between(min_count, count, max_count)
            THEN <<Issue("skill", item.key, count, min_count, max_count, {})>>
            ELSE << >>
    ELSE << >>

RECURSIVE SkillsLoop(_, _)
SkillsLoop(skills_config, skills) ==
    IF skills_config = << >> THEN << >>
    ELSE SkillIssues(Head(skills_config), skills)
             \o SkillsLoop(Tail(skills_config), skills)

\* 5. skills counts
CheckSkills(selection, corpus) ==
    LET skills_config == Get(Config(corpus), "skills_per_category", << >>)
        skills == TrimmedGet(selection, "skills", NoSkills)
    IN IF skills_config # << >> /\ skills.t = "null" THEN Raise("TypeError")
       ELSE Ok(SkillsLoop(skills_config, skills))

\* 6. exactly one summary
CheckSummary(selection) ==
    LET summaries == TrimmedGet(selection, "summaries", NoSummaries) IN
    IF summaries.t = "null" THEN Raise("TypeError")
    ELSE IF summaries.v # 1
         THEN Ok(<<Issue("summary", "", summaries.v, 1, 1, {})>>)
         ELSE IF summaries.t = "strlist" THEN Raise("AttributeError")
              ELSE Ok(<< >>)

\* What the call did.
NotRun == [status |-> "none", is_valid |-> FALSE, issues |-> << >>, exc |-> ""]
Raised(exc) == [status |-> "raised", is_valid |-> FALSE, issues |-> << >>, exc |-> exc]
\* if not issues: return True, ...  else: return False, ...
Returned(issues) ==
    [status |-> "returned", is_valid |-> (issues = << >>), issues |-> issues, exc |-> ""]

\* _validate_response: the six checks in the order the code runs them, each
\* appending to issues; an exception in one check ends the call.
ValidateResponse(selection, corpus) ==
    LET c1 == CheckTotalBullets(selection, corpus) IN
    IF c1.raised THEN Raised(c1.exc) ELSE
    LET c2 == CheckCompanySet(selection, corpus) IN
    IF c2.raised THEN Raised(c2.exc) ELSE
    LET c3 == CheckPerCompany(selection, corpus) IN
    IF c3.raised THEN Raised(c3.exc) ELSE
    LET c4 == CheckProjects(selection, corpus) IN
    IF c4.raised THEN Raised(c4.exc) ELSE
    LET c5 == CheckSkills(selection, corpus) IN
    IF c5.raised THEN Raised(c5.exc) ELSE
    LET c6 == CheckSummary(selection) IN
    IF c6.raised THEN Raised(c6.exc) ELSE
    Returned(c1.issues \o c2.issues \o c3.issues \o c4.issues \o c5.issues \o c6.issues)

(***************************************************************************)
(* The corpora of the model.  A corpus is the dict loaded from the resume  *)
(* JSON.  Bounds are scaled down from Scenario A ([2,3], [3,4], total      *)
(* [6,8]) so that the bullet counts of the model fall below, inside and    *)
(* above them.  config.skills_per_category, an ordered dict, is held as    *)
(* the sequence of its items.                                              *)
(***************************************************************************)
Languages == [key |-> "languages", constraints |-> [min |-> 1, max |-> 1]]

\* a corpus migrated to the canonical shape: skills is an array of sections,
\* config.skills_per_category is still there (the migration leaves it)
CorpusMigrated ==
    [config |-> [bullets |-> [total_min |-> 2, total_max |-> 2],
                 projects |-> [min |-> 1, max |-> 1],
                 skills_per_category |-> <<Languages>>],
     companies |-> <<[id |-> "c1", bullet_constraints |-> [min |-> 1, max |-> 1]],
                     [id |-> "c2", bullet_constraints |-> [min |-> 1, max |-> 2]]>>,
     skills |-> [t |-> "list",
                 v |-> <<[title |-> "Languages", min |-> 1, max |-> 1]>>]]

\* a corpus written in the canonical shape, with fields left to the defaults
CorpusNative ==
    [config |-> [bullets |-> [total_min |-> 1], projects |-> [min |-> 0]],
     companies |-> <<[id |-> "c1", bullet_constraints |-> [min |-> 1]]>>,
     skills |-> [t |-> "list",
                 v |-> <<[title |-> "Languages", min |-> 1, max |-> 1]>>]]

\* a legacy corpus: skills is a map keyed by category
CorpusLegacy ==
    [config |-> [bullets |-> [total_min |-> 1, total_max |-> 2],
                 projects |-> [min |-> 1, max |-> 2],
                 skills_per_category |->
                     <<Languages, [key |-> "tools", constraints |-> EmptyDict]>>],
     companies |-> <<[id |-> "c1", bullet_constraints |-> [min |-> 1, max |-> 2]]>>,
     skills |-> [t |-> "dict", v |-> [languages |-> 2, tools |-> 2]]]

\* no config and no bullet_constraints: every bound is a default
CorpusDefaults ==
    [companies |-> <<[id |-> "c1"]>>,
     skills |-> [t |-> "list", v |-> << >>]]

\* a corpus without a 'companies' key
CorpusNoCompanies ==
    [config |-> [bullets |-> [total_min |-> 0, total_max |-> 2],
                 projects |-> [min |-> 0, max |-> 1]]]

Corpora == {CorpusMigrated, CorpusNative, CorpusLegacy, CorpusDefaults,
            CorpusNoCompanies}

(***************************************************************************)
(* The selections of the model: what _parse_response can hand over.        *)
(***************************************************************************)
\* the ids a selection for this corpus uses: the corpus's own, and "cx", an id
\* no corpus has
CompanyIds(corpus) == IdSet(Get(corpus, "companies", << >>)) \cup {"cx"}

SelectedCompanies(corpus) == [id : CompanyIds(corpus), bullets : 0..MaxBullets]

\* a selection lists at most as many companies as there are ids to pick from:
\* it can drop companies, add the unknown one and list a company twice
MaxSelCompanies(corpus) == Cardinality(CompanyIds(corpus))

SeqsUpTo(S, n) == UNION {[1..k -> S] : k \in 0..n}

List(n) == [t |-> "list", v |-> n]

\* skills and summaries in the canonical shape (arrays) or the legacy one (maps)
SkillsOf(shape, n) ==
    IF shape = "v2"
    THEN [t |-> "list", v |-> <<[title |-> "Languages", items |-> n]>>]
    ELSE [t |-> "dict", v |-> [languages |-> n]]
SummariesOf(shape, n) == [t |-> IF shape = "v2" THEN "list" ELSE "dict", v |-> n]

Selection(companies, projects, shape, items, summaries) ==
    [t |-> "dict",
     v |-> [companies |-> [t |-> "list", v |-> companies],
            projects |-> List(projects),
            skills |-> SkillsOf(shape, items),
            summaries |-> SummariesOf(shape, summaries)]]

\* the shape of a corpus: "v1" when skills is the legacy map, else "v2"
ShapeOf(corpus) ==
    IF Get(corpus, "skills", EmptyList).t = "dict" THEN "v1" ELSE "v2"

\* selections of the shape the data model describes: the reply mirrors the
\* shape of the corpus, as the request asks
WellFormedSelections(corpus) ==
    {Selection(cs, p, ShapeOf(corpus), n, s) :
        cs \in SeqsUpTo(SelectedCompanies(corpus), MaxSelCompanies(corpus)),
        p \in 0..MaxProjects,
        n \in 0..MaxItems,
        s \in 0..MaxSummaries}

\* d with key k removed / set
Without(d, k) == [x \in DOMAIN d \ {k} |-> d[x]]
With(d, k, val) == [x \in DOMAIN d \cup {k} |-> IF x = k THEN val ELSE d[x]]

Null == [t |-> "null"]

\* selections that are valid JSON but not of the shape asked for: one field of
\* a well-formed selection missing or of another JSON type, or skills and
\* summaries as legacy maps
BaseSelections ==
    {Selection(cs, 1, "v2", 1, 1) :
        cs \in {<< >>,
                <<[id |-> "c1", bullets |-> 1]>>,
                <<[id |-> "c1", bullets |-> 1], [id |-> "c2", bullets |-> 1]>>}}

Defects(sel) ==
    {[t |-> "list", v |-> << >>]}
    \cup {[sel EXCEPT !.v = Without(sel.v, k)] :
            k \in {"companies", "projects", "skills", "summaries"}}
    \cup {[sel EXCEPT !.v = With(sel.v, k, Null)] :
            k \in {"companies", "projects", "skills", "summaries"}}
    \cup {[sel EXCEPT !.v.summaries = [t |-> "strlist", v |-> n]] : n \in 0..1}
    \cup {[sel EXCEPT !.v.skills = SkillsOf("v1", n),
                      !.v.summaries = SummariesOf("v1", m)] : n \in 0..1, m \in 0..1}
    \cup {[sel EXCEPT !.v.companies.v[i] = Without(sel.v.companies.v[i], k)] :
            i \in DOMAIN sel.v.companies.v, k \in {"id", "bullets"}}

MalformedSelections == UNION {Defects(sel) : sel \in BaseSelections}

Selections(corpus) == WellFormedSelections(corpus) \cup MalformedSelections

(***************************************************************************)
(* The validator as a state machine: select_resume_content hands a corpus  *)
(* and the parsed selection to _validate_response, and the call settles    *)
(* the verdict.                                                            *)
(***************************************************************************)
\* the generation run and the parser before they are started
NoService == [up |-> FALSE, parses |-> FALSE, data |-> Null, texts |-> "none"]
NoTools == [fill |-> FALSE, compile |-> FALSE]
Nothing == [warned |-> FALSE, saved |-> FALSE, filled |-> FALSE, pdf |-> FALSE,
            organised |-> FALSE]
NoRequest == [system_blocks |-> << >>, user_message |-> << >>]
GenerationIdle ==
    /\ caller = "none"
    /\ stage = "idle"
    /\ job_description = << >>
    /\ request = NoRequest
    /\ stages_run = << >>
    /\ should_rewrite_selected = FALSE
    /\ selection_texts = "none"
    /\ credential = FALSE
    /\ calls = 0
    /\ service = NoService
    /\ tools = NoTools
    /\ produced = Nothing

NoValue == [t |-> "none", s |-> << >>, m |-> << >>]
NoReply == [json |-> NoValue, written |-> << >>, lead |-> << >>, open |-> << >>,
            close |-> << >>, trail |-> << >>]
NoOutcome == [status |-> "none", value |-> Null, success |-> FALSE, exc |-> ""]
NormalizationIdle ==
    /\ data = Null
    /\ before = Null
    /\ entry = "none"
    /\ passes = 0
    /\ outcome = NoOutcome

\* the runs that produce documents before they are started: a file, or a
\* selection, is held as [owner, rev], the run whose selection it is and the
\* number of edits made on it; NoFile where there is none
NoFile == [owner |-> "none", rev |-> 0]
SessionsIdle ==
    /\ runner = << >>
    /\ company_name = << >>
    /\ pc = << >>
    /\ trimmed_object = << >>
    /\ handed = << >>
    /\ version = << >>
    /\ latest_saved_version = << >>
    /\ runs = << >>
    /\ regenerations = << >>
    /\ output_dir = << >>
    /\ company_dir = << >>

\* the configuration before the process has touched it: no file, no call
NoUser == << >>
NoCall == [op |-> "none", arg |-> << >>, value |-> "none"]
UsersIdle ==
    /\ global_config = [stored |-> FALSE]
    /\ default_users = << >>
    /\ user_dirs = {}
    /\ returned = NoCall

\* fill_latex_template before it is called
NoLayout == [skills |-> "none", summaries |-> "none", links |-> "none",
             settings |-> "none"]
FillIdle ==
    /\ user_text = << >>
    /\ layout = NoLayout
    /\ template = << >>
    /\ fill_pc = "idle"

ParserIdle ==
    /\ response_text = << >>
    /\ text = << >>
    /\ parse_pc = "idle"
    /\ parsed = NoValue
    /\ reply = NoReply

ValidateInit ==
    /\ full_resume_data \in Corpora
    /\ trimmed_data \in Selections(full_resume_data)
    /\ verdict = NotRun
    /\ GenerationIdle
    /\ ParserIdle
    /\ NormalizationIdle
    /\ SessionsIdle
    /\ FillIdle
    /\ UsersIdle

Validate ==
    /\ verdict.status = "none"
    /\ stage = "idle"
    /\ verdict' = ValidateResponse(trimmed_data, full_resume_data)
    /\ UNCHANGED <<full_resume_data, trimmed_data, gvars, pvars, mvars, svars, fvars, uvars>>

ValidateNext == Validate

SpecValidate == ValidateInit /\ [][ValidateNext]_vars

(***************************************************************************)
(* The validator on corpora whose bounds cannot be met together: the       *)
(* minimum bullet counts of the companies add up to more than the total    *)
(* maximum.                                                                *)
(***************************************************************************)
CorpusInfeasible ==
    [config |-> [bullets |-> [total_min |-> 1, total_max |-> 2],
                 projects |-> [min |-> 0, max |-> 2]],
     companies |-> <<[id |-> "c1", bullet_constraints |-> [min |-> 2, max |-> 2]],
                     [id |-> "c2", bullet_constraints |-> [min |-> 1, max |-> 2]]>>,
     skills |-> [t |-> "list", v |-> << >>]]

CorpusInfeasibleOne ==
    [config |-> [bullets |-> [total_min |-> 0, total_max |-> 1],
                 projects |-> [min |-> 0]],
     companies |-> <<[id |-> "c1", bullet_constraints |-> [min |-> 2]]>>,
     skills |-> [t |-> "dict", v |-> [languages |-> 2]]]

InfeasibleCorpora == {CorpusInfeasible, CorpusInfeasibleOne}

InfeasibleInit ==
    /\ full_resume_data \in InfeasibleCorpora
    /\ trimmed_data \in Selections(full_resume_data)
    /\ verdict = NotRun
    /\ GenerationIdle
    /\ ParserIdle
    /\ NormalizationIdle
    /\ SessionsIdle
    /\ FillIdle
    /\ UsersIdle

SpecInfeasible == InfeasibleInit /\ [][ValidateNext]_vars

(***************************************************************************)
(* What the specification says of a verdict (spec.md 4.2, 4.6), stated on  *)
(* the corpus and the selection alone, without the validator's operators.  *)
(***************************************************************************)
Called == verdict.status # "none"
ReturnedVerdict == verdict.status = "returned"

\* the selection has the shape of the data model: an object whose companies each
\* carry an id and bullets, with projects, skills and summaries collections
DataModelShaped ==
    /\ trimmed_data.t = "dict"
    /\ {"companies", "projects", "skills", "summaries"} \subseteq DOMAIN trimmed_data.v
    /\ trimmed_data.v.companies.t = "list"
    /\ \A i \in DOMAIN trimmed_data.v.companies.v :
          {"id", "bullets"} \subseteq DOMAIN trimmed_data.v.companies.v[i]
    /\ trimmed_data.v.projects.t = "list"
    /\ trimmed_data.v.skills.t \in {"list", "dict"}
    /\ trimmed_data.v.summaries.t \in {"list", "dict"}
    /\ "companies" \in DOMAIN full_resume_data

SelCompanies == trimmed_data.v.companies.v
SelIds == {SelCompanies[i].id : i \in DOMAIN SelCompanies}
CorpusCompanies == full_resume_data.companies
CorpusIds == {CorpusCompanies[k].id : k \in DOMAIN CorpusCompanies}
CorpusCompany(id) == CHOOSE c \in Range(CorpusCompanies) : c.id = id

Declared(d, path1, path2, default) ==
    IF path1 \in DOMAIN d /\ path2 \in DOMAIN d[path1] THEN d[path1][path2] ELSE default
CorpusConfig == IF "config" \in DOMAIN full_resume_data THEN full_resume_data.config
                ELSE EmptyDict

TotalMin == Declared(CorpusConfig, "bullets", "total_min", 16)
TotalMax == Declared(CorpusConfig, "bullets", "total_max", 20)
CompanyMin(id) == Declared(CorpusCompany(id), "bullet_constraints", "min", 4)
CompanyMax(id) == Declared(CorpusCompany(id), "bullet_constraints", "max", 6)
ProjectsMin == Declared(CorpusConfig, "projects", "min", 2)
ProjectsMax == Declared(CorpusConfig, "projects", "max", 3)

RECURSIVE Sum(_, _)
Sum(f, S) == IF S = {} THEN 0
             ELSE LET x == CHOOSE y \in S : TRUE IN f[x] + Sum(f, S \ {x})
TotalBullets == Sum([i \in DOMAIN SelCompanies |-> SelCompanies[i].bullets],
                    DOMAIN SelCompanies)

TotalOk == TotalMin <= TotalBullets /\ TotalBullets <= TotalMax
CompanySetOk == SelIds = CorpusIds
CompanyOk(i) ==
    /\ SelCompanies[i].id \in CorpusIds
    /\ CompanyMin(SelCompanies[i].id) <= SelCompanies[i].bullets
    /\ SelCompanies[i].bullets <= CompanyMax(SelCompanies[i].id)
PerCompanyOk == \A i \in DOMAIN SelCompanies : CompanyOk(i)
ProjectsOk == ProjectsMin <= trimmed_data.v.projects.v
              /\ trimmed_data.v.projects.v <= ProjectsMax
SummaryOk == trimmed_data.v.summaries.v = 1

\* The skill sections of the selection and the [min,max] the corpus declares
\* for each.  Canonical shape: the corpus section of the same title declares
\* min and max.  Legacy shape: config.skills_per_category declares them by
\* category.
SelSkills == trimmed_data.v.skills
CanonicalSkills == SelSkills.t = "list"
CorpusSections == IF "skills" \in DOMAIN full_resume_data
                     /\ full_resume_data.skills.t = "list"
                  THEN Range(full_resume_data.skills.v) ELSE {}
SkillsConfig == IF "skills_per_category" \in DOMAIN CorpusConfig
                THEN Range(CorpusConfig.skills_per_category) ELSE {}
\* every selected section that has declared bounds, with its item count
ConstrainedSections ==
    IF CanonicalSkills
    THEN {[title |-> p[1].title, count |-> p[1].items,
           min |-> p[2].min, max |-> p[2].max] :
            p \in {q \in Range(SelSkills.v) \X CorpusSections :
                      /\ q[1].title = q[2].title
                      /\ {"min", "max"} \subseteq DOMAIN q[2]}}
    ELSE {[title |-> it.key, count |-> SelSkills.v[it.key],
           min |-> it.constraints.min, max |-> it.constraints.max] :
            it \in {x \in SkillsConfig :
                      /\ x.key \in DOMAIN SelSkills.v
                      /\ {"min", "max"} \subseteq DOMAIN x.constraints}}
SkillOk(q) == q.min <= q.count /\ q.count <= q.max
SkillsOk == \A q \in ConstrainedSections : SkillOk(q)

AllSixPass ==
    TotalOk /\ CompanySetOk /\ PerCompanyOk /\ ProjectsOk /\ SkillsOk /\ SummaryOk

\* the issues of one kind, as a set
IssuesOf(check) == {verdict.issues[i] : i \in {j \in DOMAIN verdict.issues :
                                                verdict.issues[j].check = check}}

(***************************************************************************)
(* C1.  For every corpus and every parsed selection, is_valid = True       *)
(* exactly when the issue list is empty, and exactly when all six checks   *)
(* pass: total bullets, company-id set, per-company bullets, project       *)
(* count, constrained skill sections, exactly one summary.                 *)
(***************************************************************************)
C1_ValidIffAllSixPass ==
    (Called /\ DataModelShaped) =>
        /\ ReturnedVerdict
        /\ verdict.is_valid <=> (verdict.issues = << >>)
        /\ verdict.is_valid <=> AllSixPass

(***************************************************************************)
(* C2.  A selection whose company-id set differs from the corpus's is      *)
(* never reported valid, whatever its other fields are: the validator      *)
(* returns is_valid = False with the company-set issue.                    *)
(***************************************************************************)
C2_CompanySetDiffers ==
    /\ Called
    /\ DataModelShaped
    /\ SelIds # CorpusIds

C2_MandatoryCompanies ==
    C2_CompanySetDiffers =>
        /\ ReturnedVerdict
        /\ ~verdict.is_valid
        /\ \E issue \in IssuesOf("companies") : issue.missing = CorpusIds \ SelIds

\* a company dropped while every count is within its bounds
C2_Witness ==
    /\ C2_CompanySetDiffers
    /\ CorpusIds \ SelIds # {}
    /\ TotalOk /\ ProjectsOk /\ SkillsOk /\ SummaryOk
    /\ \A i \in DOMAIN SelCompanies : CompanyOk(i)
    /\ ReturnedVerdict /\ ~verdict.is_valid

(***************************************************************************)
(* C3.  A selection that violates exactly one declared [min,max] bound     *)
(* (the total bullet count, one company's bullet count, one skill          *)
(* section's item count or the project count) and satisfies every other    *)
(* check gets is_valid = False and an issue list of exactly one entry,     *)
(* which names the violated bound.                                         *)
(***************************************************************************)
BadCompanies == {i \in DOMAIN SelCompanies :
                    SelCompanies[i].id \in CorpusIds /\ ~CompanyOk(i)}
BadSections == {q \in ConstrainedSections : ~SkillOk(q)}
ViolatedBounds ==
    (IF TotalOk THEN 0 ELSE 1) + Cardinality(BadCompanies)
        + Cardinality(BadSections) + (IF ProjectsOk THEN 0 ELSE 1)

NamesViolatedBound(issue) ==
    \/ ~TotalOk /\ issue.check = "total_bullets" /\ issue.actual = TotalBullets
    \/ \E i \in BadCompanies :
          /\ issue.check = "company_bullets"
          /\ issue.subject = SelCompanies[i].id
          /\ issue.actual = SelCompanies[i].bullets
    \/ \E q \in BadSections : issue.check = "skill" /\ issue.actual = q.count
    \/ ~ProjectsOk /\ issue.check = "projects"
                   /\ issue.actual = trimmed_data.v.projects.v

C3_OneBoundOneIssue ==
    (Called /\ DataModelShaped /\ CompanySetOk /\ SummaryOk /\ ViolatedBounds = 1) =>
        /\ ReturnedVerdict
        /\ ~verdict.is_valid
        /\ Len(verdict.issues) = 1
        /\ NamesViolatedBound(verdict.issues[1])

(***************************************************************************)
(* C4.  In the canonical shape (skills as an array of sections), a         *)
(* selected section whose number of items is below the min or above the    *)
(* max declared for its title produces a skill issue and is_valid = False. *)
(***************************************************************************)
C4_CanonicalSkillsChecked ==
    (Called /\ DataModelShaped /\ CanonicalSkills /\ BadSections # {}) =>
        /\ ReturnedVerdict
        /\ ~verdict.is_valid
        /\ IssuesOf("skill") # {}

(***************************************************************************)
(* C5.  Every selected company whose id the corpus has is compared with    *)
(* that company's declared bullet bounds (default [4,6]); a count outside  *)
(* them appends an issue naming the company id, the count and the range.   *)
(* A selected company whose id the corpus does not have gets a 'not found' *)
(* issue and is not bound-checked.                                         *)
(***************************************************************************)
BulletCount(company) == IF "bullets" \in DOMAIN company THEN company.bullets ELSE 0

C5_PerCompanyBounds ==
    (ReturnedVerdict /\ "companies" \in DOMAIN trimmed_data.v) =>
        /\ \A i \in DOMAIN SelCompanies :
              LET id == SelCompanies[i].id
                  n == BulletCount(SelCompanies[i])
              IN IF id \in CorpusIds
                 THEN /\ (n < CompanyMin(id) \/ n > CompanyMax(id))
                            <=> \E issue \in IssuesOf("company_bullets") :
                                   /\ issue.subject = id
                                   /\ issue.actual = n
                                   /\ issue.lo = CompanyMin(id)
                                   /\ issue.hi = CompanyMax(id)
                      /\ \A issue \in IssuesOf("company_not_found") : issue.subject # id
                 ELSE /\ \E issue \in IssuesOf("company_not_found") : issue.subject = id
                      /\ \A issue \in IssuesOf("company_bullets") : issue.subject # id
        /\ \A issue \in IssuesOf("company_bullets") \cup IssuesOf("company_not_found") :
              \E i \in DOMAIN SelCompanies :
                 /\ issue.subject = SelCompanies[i].id
                 /\ issue.check = "company_bullets" =>
                       issue.actual = BulletCount(SelCompanies[i])

\* one verdict holding a bound issue that states a default beside a 'not found'
\* issue
C5_Witness ==
    /\ ReturnedVerdict
    /\ "companies" \in DOMAIN trimmed_data.v
    /\ \E issue \in IssuesOf("company_bullets") : issue.hi = 6
    /\ IssuesOf("company_not_found") # {}

(***************************************************************************)
(* C6.  _validate_response never raises: for every value the parser can    *)
(* return and every corpus it returns an (is_valid, message) pair.         *)
(***************************************************************************)
C6_NeverRaises == verdict.status # "raised"

(***************************************************************************)
(* C7.  All six checks are evaluated on every call: each check that fails  *)
(* has an issue in the list, and the issues stand in the order total       *)
(* bullets, company set, per-company bullets, project count, skill         *)
(* sections, summary.                                                      *)
(***************************************************************************)
Rank(check) ==
    CASE check = "total_bullets" -> 1
      [] check = "companies" -> 2
      [] check \in {"company_bullets", "company_not_found"} -> 3
      [] check = "projects" -> 4
      [] check = "skill" -> 5
      [] check = "summary" -> 6

C7_AllChecksInOrder ==
    (Called /\ DataModelShaped) =>
        /\ ReturnedVerdict
        /\ ~TotalOk => IssuesOf("total_bullets") # {}
        /\ ~CompanySetOk => IssuesOf("companies") # {}
        /\ ~PerCompanyOk =>
              IssuesOf("company_bullets") \cup IssuesOf("company_not_found") # {}
        /\ ~ProjectsOk => IssuesOf("projects") # {}
        /\ ~SkillsOk => IssuesOf("skill") # {}
        /\ ~SummaryOk => IssuesOf("summary") # {}
        /\ \A i, j \in DOMAIN verdict.issues :
              i < j => Rank(verdict.issues[i].check) <= Rank(verdict.issues[j].check)

(***************************************************************************)
(* One generation run: select_resume_content (call the service, parse the  *)
(* reply, validate it, return) followed by its caller, generate_resume of  *)
(* main.py or the generate page, which saves the selection, fills the      *)
(* template and compiles it.  The position of the run is stage.            *)
(***************************************************************************)
Callers == {"generate_resume", "generate_page"}

\* the replies of a run: selections with no or one company, in the canonical
\* or the legacy shape, and the malformed ones
GenerationSelections(corpus) ==
    {Selection(cs, 1, shape, 1, n) :
        cs \in SeqsUpTo(SelectedCompanies(corpus), 1),
        shape \in {"v1", "v2"},
        n \in 0..MaxSummaries}
    \cup MalformedSelections

\* what the service does in one invocation: the call fails, the reply cannot be
\* parsed, or the reply parses to a selection, whose bullet texts and project
\* descriptions are the corpus's own or not
Services(corpus) ==
    {[up |-> FALSE, parses |-> FALSE, data |-> Null, texts |-> "none"],
     [up |-> TRUE, parses |-> FALSE, data |-> Null, texts |-> "none"]}
    \cup {[up |-> TRUE, parses |-> TRUE, data |-> d, texts |-> t] :
             d \in GenerationSelections(corpus), t \in {"verbatim", "altered"}}

(***************************************************************************)
(* The request: _build_prompt_with_caching.  A text of the request is held *)
(* as the record of the values formatted into it; the fixed wording of     *)
(* llm_config.json is held by name.                                        *)
(***************************************************************************)
\* the job descriptions of the model, as their words
JobDescriptions == {<<"android">>, <<"backend", "ml">>}

\* the bounds the request names for a skill section that carries none
PromptSkillMin == 5
PromptSkillMax == 10

\* skills_config.get(key, {}) on the dict held as the sequence of its items
SkillsConfigGet(skills_config, key) ==
    IF \E i \in DOMAIN skills_config : skills_config[i].key = key
    THEN skills_config[CHOOSE i \in DOMAIN skills_config :
                           skills_config[i].key = key].constraints
    ELSE EmptyDict

\* title.lower() and category_key.title() on the category names
Lower(title) ==
    CASE title = "Languages" -> "languages"
      [] title = "Platforms" -> "platforms"
      [] title = "Skills" -> "skills"
      [] title = "Frameworks" -> "frameworks"
      [] title = "Tools" -> "tools"
      [] title = "Database" -> "database"
      [] OTHER -> title
Title(category_key) ==
    CASE category_key = "languages" -> "Languages"
      [] category_key = "platforms" -> "Platforms"
      [] category_key = "skills" -> "Skills"
      [] category_key = "frameworks" -> "Frameworks"
      [] category_key = "tools" -> "Tools"
      [] category_key = "database" -> "Database"
      [] OTHER -> category_key

\* min_val / max_val of one section of a skills array: the section's own when
\* it carries both, else its own unless falsy, else the config's for the
\* lowered title, else the default
SectionBound(skill_section, name, skills_config, default) ==
    IF "min" \in DOMAIN skill_section /\ "max" \in DOMAIN skill_section
    THEN skill_section[name]
    ELSE IF name \in DOMAIN skill_section /\ skill_section[name] # 0
         THEN skill_section[name]
         ELSE Get(SkillsConfigGet(skills_config,
                                  Lower(Get(skill_section, "title", ""))),
                  name, default)

SkillsData(corpus) == Get(corpus, "skills", [t |-> "list", v |-> << >>])

RECURSIVE LegacyConstraints(_, _, _)
LegacyConstraints(keys, skills_data, skills_config) ==
    IF keys = << >> THEN << >>
    ELSE LET category_key == Head(keys)
             rest == LegacyConstraints(Tail(keys), skills_data, skills_config)
         IN IF category_key \in DOMAIN skills_data
            THEN <<[title |-> Title(category_key),
                    min |-> Get(SkillsConfigGet(skills_config, category_key),
                                "min", PromptSkillMin),
                    max |-> Get(SkillsConfigGet(skills_config, category_key),
                                "max", PromptSkillMax)]>> \o rest
            ELSE rest

\* _build_skills_constraints: one line per section of a skills array, or per
\* category of a skills map in the fixed order of the categories
BuildSkillsConstraints(corpus, config) ==
    LET skills_data == SkillsData(corpus)
        skills_config == Get(config, "skills_per_category", << >>)
    IN IF skills_data.t = "list"
       THEN [i \in DOMAIN skills_data.v |->
                [title |-> Get(skills_data.v[i], "title", ""),
                 min |-> SectionBound(skills_data.v[i], "min", skills_config,
                                      PromptSkillMin),
                 max |-> SectionBound(skills_data.v[i], "max", skills_config,
                                      PromptSkillMax)]]
       ELSE LegacyConstraints(
                <<"languages", "platforms", "skills", "frameworks", "tools",
                  "database">>, skills_data.v, skills_config)

\* _build_skills_json_schema: the schema of a skills array names its sections,
\* the schema of a skills map is a fixed text
BuildSkillsJsonSchema(corpus) ==
    LET skills_data == SkillsData(corpus) IN
    IF skills_data.t = "list"
    THEN [i \in DOMAIN skills_data.v |->
             [title |-> Get(skills_data.v[i], "title", ""),
              min |-> Get(skills_data.v[i], "min", PromptSkillMin),
              max |-> Get(skills_data.v[i], "max", PromptSkillMax)]]
    ELSE <<"legacy skills schema">>

\* the per-company constraints list
CompanyConstraints(corpus) ==
    LET companies == Get(corpus, "companies", << >>) IN
    [i \in DOMAIN companies |->
        LET constraints == Get(companies[i], "bullet_constraints", EmptyDict) IN
        [id |-> companies[i].id,
         min |-> Get(constraints, "min", DefaultCompanyMin),
         max |-> Get(constraints, "max", DefaultCompanyMax)]]

\* the text of the first system block
SystemInstructions(corpus, should_rewrite) ==
    LET config == Config(corpus) IN
    [rewrite_instruction |-> IF should_rewrite THEN "enabled_instruction"
                             ELSE "disabled_instruction",
     total_min |-> Get(Get(config, "bullets", EmptyDict), "total_min",
                       DefaultTotalMin),
     total_max |-> Get(Get(config, "bullets", EmptyDict), "total_max",
                       DefaultTotalMax),
     company_constraints |-> CompanyConstraints(corpus),
     companies |-> Len(Get(corpus, "companies", << >>)),
     skills_constraints |-> BuildSkillsConstraints(corpus, config),
     projects_min |-> Get(Get(config, "projects", EmptyDict), "min",
                          DefaultProjectsMin),
     projects_max |-> Get(Get(config, "projects", EmptyDict), "max",
                          DefaultProjectsMax),
     skills_schema |-> BuildSkillsJsonSchema(corpus),
     rewrite |-> should_rewrite]

\* a mutation of BuildPromptWithCaching: the job description is written into
\* the instructions, as the single-prompt builder _build_prompt does
BuildPromptSinglePart(corpus, description, should_rewrite) ==
    [system_blocks |->
        <<[type |-> "text",
           text |-> <<SystemInstructions(corpus, should_rewrite), description>>],
          [type |-> "text", text |-> <<"FULL RESUME DATA", corpus>>,
           cache_control |-> "ephemeral"]>>,
     user_message |-> <<"user_prompt_template", description>>]

\* _build_prompt_with_caching: two system blocks, the instructions and the
\* serialized corpus with the caching hint, and the user message, which is
\* the template formatted with the job description
BuildPromptWithCaching(corpus, description, should_rewrite) ==
    [system_blocks |->
        <<[type |-> "text", text |-> SystemInstructions(corpus, should_rewrite)],
          [type |-> "text", text |-> <<"FULL RESUME DATA", corpus>>,
           cache_control |-> "ephemeral"]>>,
     user_message |-> <<"user_prompt_template", description>>]

GenerateInit ==
    /\ full_resume_data \in Corpora
    /\ trimmed_data = Null
    /\ verdict = NotRun
    /\ caller \in Callers
    /\ stage = "init"
    /\ job_description \in JobDescriptions
    /\ request = NoRequest
    /\ stages_run = << >>
    /\ should_rewrite_selected \in BOOLEAN
    /\ selection_texts = "none"
    /\ credential \in BOOLEAN
    /\ calls = 0
    /\ service \in Services(full_resume_data)
    /\ tools \in [fill : BOOLEAN, compile : BOOLEAN]
    /\ produced = Nothing
    /\ ParserIdle
    /\ NormalizationIdle
    /\ SessionsIdle
    /\ FillIdle
    /\ UsersIdle

\* selector = ResumeSelector(...): without an API key the constructor raises
\* ValueError, which the caller prints and raises (generate_resume) or shows
\* (the generate page)
CreateSelector ==
    /\ stage = "init"
    /\ stage' = IF credential THEN "compose" ELSE "raised"
    /\ UNCHANGED <<vvars, caller, job_description, request, stages_run, should_rewrite_selected, selection_texts, credential, calls, service, tools, produced, pvars, mvars, svars, fvars, uvars>>

\* system_blocks, user_message = self._build_prompt_with_caching(...): the
\* constraints are derived and the two parts of the request composed
ComposeRequest ==
    /\ stage = "compose"
    /\ request' = BuildPromptWithCaching(full_resume_data, job_description,
                                         should_rewrite_selected)
    /\ stages_run' = stages_run \o <<"derive constraints", "compose request">>
    /\ stage' = "call"
    /\ UNCHANGED <<vvars, caller, job_description, should_rewrite_selected, selection_texts, credential, calls, service, tools, produced, pvars, mvars, svars, fvars, uvars>>

\* a mutation of CallService: a failed call is made a second time
CallServiceRetried ==
    /\ stage = "call"
    /\ calls' = calls + 1
    /\ stage' = IF service.up THEN "parse"
                ELSE IF calls = 0 THEN "call" ELSE "raised"
    /\ stages_run' = IF service.up THEN Append(stages_run, "service call")
                   ELSE stages_run
    /\ UNCHANGED <<vvars, caller, job_description, request, should_rewrite_selected, selection_texts, credential, service, tools, produced, pvars, mvars, svars, fvars, uvars>>

\* response = self.client.messages.create(...): one call; an exception of the
\* call is printed and raised again
CallService ==
    /\ stage = "call"
    /\ calls' = calls + 1
    /\ stage' = IF service.up THEN "parse" ELSE "raised"
    /\ stages_run' = IF service.up THEN Append(stages_run, "service call")
                   ELSE stages_run
    /\ UNCHANGED <<vvars, caller, job_description, request, should_rewrite_selected, selection_texts, credential, service, tools, produced, pvars, mvars, svars, fvars, uvars>>

\* a mutation of ParseReply: a reply that does not parse is taken for an empty
\* selection and the run goes on to validate it
ParseReplySwallowed ==
    /\ stage = "parse"
    /\ trimmed_data' = IF service.parses THEN service.data
                       ELSE [t |-> "dict", v |-> EmptyDict]
    /\ selection_texts' = service.texts
    /\ stage' = "validate"
    /\ stages_run' = Append(stages_run, "parse")
    /\ UNCHANGED <<full_resume_data, verdict, caller, job_description, request, should_rewrite_selected, credential, calls, service, tools, produced, pvars, mvars, svars, fvars, uvars>>

\* trimmed_data = self._parse_response(response_text)
ParseReply ==
    /\ stage = "parse"
    /\ IF service.parses
       THEN /\ trimmed_data' = service.data
            /\ selection_texts' = service.texts
            /\ stage' = "validate"
       ELSE /\ trimmed_data' = trimmed_data
            /\ selection_texts' = selection_texts
            /\ stage' = "raised"
    /\ stages_run' = IF service.parses THEN Append(stages_run, "parse")
                   ELSE stages_run
    /\ UNCHANGED <<full_resume_data, verdict, caller, job_description, request, should_rewrite_selected, credential, calls, service, tools, produced, pvars, mvars, svars, fvars, uvars>>

\* is_valid, validation_message = self._validate_response(...)
\* return trimmed_data, (is_valid, validation_message)
ValidateReply ==
    /\ stage = "validate"
    /\ verdict' = ValidateResponse(trimmed_data, full_resume_data)
    /\ stage' = IF verdict'.status = "raised" THEN "raised" ELSE "returned"
    /\ stages_run' = IF verdict'.status = "raised" THEN stages_run
                   ELSE Append(stages_run, "validate")
    /\ UNCHANGED <<full_resume_data, trimmed_data, caller, job_description, request, should_rewrite_selected, selection_texts, credential, calls, service, tools, produced, pvars, mvars, svars, fvars, uvars>>

\* the selection summary generate_resume prints: the exception its lines raise
\* on this selection, "" when they all print
SummaryLines(selection) ==
    IF selection.t # "dict" THEN "TypeError"
    ELSE IF "companies" \notin DOMAIN selection.v THEN "KeyError"
    ELSE IF selection.v.companies.t = "null" THEN "TypeError"
    ELSE IF \E i \in DOMAIN selection.v.companies.v :
                "bullets" \notin DOMAIN selection.v.companies.v[i] THEN "KeyError"
    ELSE IF "projects" \notin DOMAIN selection.v THEN "KeyError"
    ELSE IF selection.v.projects.t = "null" THEN "TypeError"
    ELSE IF "summaries" \notin DOMAIN selection.v THEN "KeyError"
    ELSE IF selection.v.summaries.t # "dict" THEN "AttributeError"
    ELSE IF selection.v.summaries.v = 0 THEN "IndexError"
    ELSE ""

\* generate_resume, after the selector returned: print the selection summary
\* and, for a failing verdict, the warning; an exception is printed and raised
CliSummary ==
    /\ caller = "generate_resume"
    /\ stage = "returned"
    /\ LET exc == SummaryLines(trimmed_data) IN
          /\ stage' = IF exc = "" THEN "save" ELSE "raised"
          /\ produced' = [produced EXCEPT !.warned = (exc = "" /\ ~verdict.is_valid)]
    /\ UNCHANGED <<vvars, caller, job_description, request, stages_run, should_rewrite_selected, selection_texts, credential, calls, service, tools, pvars, mvars, svars, fvars, uvars>>

\* generate_resume: json.dump(trimmed_resume_data, f, indent=2)
CliSave ==
    /\ caller = "generate_resume"
    /\ stage = "save"
    /\ produced' = [produced EXCEPT !.saved = TRUE]
    /\ stage' = "fill"
    /\ UNCHANGED <<vvars, caller, job_description, request, stages_run, should_rewrite_selected, selection_texts, credential, calls, service, tools, pvars, mvars, svars, fvars, uvars>>

\* generate_resume: fill_latex_template(...); an exception is printed and raised
CliFill ==
    /\ caller = "generate_resume"
    /\ stage = "fill"
    /\ produced' = [produced EXCEPT !.filled = tools.fill]
    /\ stage' = IF tools.fill THEN "compile" ELSE "raised"
    /\ UNCHANGED <<vvars, caller, job_description, request, stages_run, should_rewrite_selected, selection_texts, credential, calls, service, tools, pvars, mvars, svars, fvars, uvars>>

\* generate_resume: compile_latex_to_pdf(...); a failed compilation leaves
\* pdf_path None and the function still returns
CliCompile ==
    /\ caller = "generate_resume"
    /\ stage = "compile"
    /\ produced' = [produced EXCEPT !.pdf = tools.compile]
    /\ stage' = "complete"
    /\ UNCHANGED <<vvars, caller, job_description, request, stages_run, should_rewrite_selected, selection_texts, credential, calls, service, tools, pvars, mvars, svars, fvars, uvars>>

\* the generate page: st.write("Validation passed") or st.warning(...)
PageShowVerdict ==
    /\ caller = "generate_page"
    /\ stage = "returned"
    /\ produced' = [produced EXCEPT !.warned = ~verdict.is_valid]
    /\ stage' = "save"
    /\ UNCHANGED <<vvars, caller, job_description, request, stages_run, should_rewrite_selected, selection_texts, credential, calls, service, tools, pvars, mvars, svars, fvars, uvars>>

\* the generate page: the selection goes to the session state and to
\* resume_data_trimmed.json
PageSave ==
    /\ caller = "generate_page"
    /\ stage = "save"
    /\ produced' = [produced EXCEPT !.saved = TRUE]
    /\ stage' = "fill"
    /\ UNCHANGED <<vvars, caller, job_description, request, stages_run, should_rewrite_selected, selection_texts, credential, calls, service, tools, pvars, mvars, svars, fvars, uvars>>

\* the generate page: fill_latex_template(...); an exception is shown by the
\* handler that closes the block
PageFill ==
    /\ caller = "generate_page"
    /\ stage = "fill"
    /\ produced' = [produced EXCEPT !.filled = tools.fill]
    /\ stage' = IF tools.fill THEN "compile" ELSE "raised"
    /\ UNCHANGED <<vvars, caller, job_description, request, stages_run, should_rewrite_selected, selection_texts, credential, calls, service, tools, pvars, mvars, svars, fvars, uvars>>

\* the generate page: lualatex runs once; a non-zero exit shows the log and
\* stops the script
PageCompile ==
    /\ caller = "generate_page"
    /\ stage = "compile"
    /\ produced' = [produced EXCEPT !.pdf = tools.compile]
    /\ stage' = IF tools.compile THEN "organise" ELSE "stopped"
    /\ UNCHANGED <<vvars, caller, job_description, request, stages_run, should_rewrite_selected, selection_texts, credential, calls, service, tools, pvars, mvars, svars, fvars, uvars>>

\* the generate page: the PDF and the selection are copied under the next free
\* version number of the company folder
PageOrganise ==
    /\ caller = "generate_page"
    /\ stage = "organise"
    /\ produced' = [produced EXCEPT !.organised = TRUE]
    /\ stage' = "complete"
    /\ UNCHANGED <<vvars, caller, job_description, request, stages_run, should_rewrite_selected, selection_texts, credential, calls, service, tools, pvars, mvars, svars, fvars, uvars>>

GenerateNext ==
    \/ CreateSelector
    \/ ComposeRequest
    \/ CallService
    \/ ParseReply
    \/ ValidateReply
    \/ CliSummary
    \/ CliSave
    \/ CliFill
    \/ CliCompile
    \/ PageShowVerdict
    \/ PageSave
    \/ PageFill
    \/ PageCompile
    \/ PageOrganise

SpecGenerate == GenerateInit /\ [][GenerateNext]_vars

(***************************************************************************)
(* C8.  Once the reply has been parsed, a failing verdict never stops      *)
(* document production: select_resume_content returns the trimmed data     *)
(* with (False, message) instead of raising, and generate_resume and the   *)
(* generate page go on to save the trimmed data, fill the template and     *)
(* compile.  Stated on a finished run whose selection has the shape of the *)
(* data model and whose verdict is failing: the selection was saved, and   *)
(* the run ended in an exception only if the template did not fill.        *)
(***************************************************************************)
Finished == stage \in {"raised", "stopped", "complete"}
FailingVerdict == ReturnedVerdict /\ ~verdict.is_valid

C8_FailingVerdictNeverStops ==
    (Finished /\ FailingVerdict /\ DataModelShaped) =>
        /\ produced.saved
        /\ stage = "raised" => ~tools.fill

(***************************************************************************)
(* _parse_response.  A text is a sequence of characters; a parsed JSON     *)
(* value is [t, s, m]: t is "dict", "str" or "num", s the characters of a  *)
(* string or a number, m the members of an object in insertion order.      *)
(* The texts of the model are written over the characters below, so the    *)
(* scanner's branches for arrays and for the literals null, true, false,   *)
(* NaN and Infinity, which none of these characters starts, are left out.  *)
(***************************************************************************)
Whitespace == {" ", "\n"}
Digits == {"5"}
\* the backtick, which a TLA+ string cannot hold, is written "BACKTICK"
Backtick == "BACKTICK"
Fence == <<Backtick, Backtick, Backtick>>
JsonFence == Fence \o <<"j", "s", "o", "n">>

\* str.startswith, str.endswith, text[n:], text[:-n], str.strip
StartsWith(t, prefix) ==
    Len(t) >= Len(prefix) /\ SubSeq(t, 1, Len(prefix)) = prefix
EndsWith(t, suffix) ==
    Len(t) >= Len(suffix) /\ SubSeq(t, Len(t) - Len(suffix) + 1, Len(t)) = suffix
DropFirst(t, n) == SubSeq(t, n + 1, Len(t))
DropLast(t, n) == SubSeq(t, 1, Len(t) - n)

RECURSIVE LStrip(_)
LStrip(t) == IF t # << >> /\ Head(t) \in Whitespace THEN LStrip(Tail(t)) ELSE t
RECURSIVE RStrip(_)
RStrip(t) ==
    IF t # << >> /\ t[Len(t)] \in Whitespace THEN RStrip(DropLast(t, 1)) ELSE t
Strip(t) == RStrip(LStrip(t))

\* if text.startswith('```json'): text = text[7:]
\* elif text.startswith('```'): text = text[3:]
\* if text.endswith('```'): text = text[:-3]
RemoveFence(t) ==
    LET opened == IF StartsWith(t, JsonFence) THEN DropFirst(t, 7)
                  ELSE IF StartsWith(t, Fence) THEN DropFirst(t, 3)
                  ELSE t
    IN  IF EndsWith(opened, Fence) THEN DropLast(opened, 3) ELSE opened

\* text = response_text.strip(); the fence markers go; text = text.strip()
Normalise(t) == Strip(RemoveFence(Strip(t)))

\* the values a JSON text parses to
Num(digits) == [t |-> "num", s |-> digits, m |-> << >>]
Str(chars) == [t |-> "str", s |-> chars, m |-> << >>]
Dict(members) == [t |-> "dict", s |-> << >>, m |-> members]
Member(key, val) == [k |-> key, val |-> val]

\* what a scan from a position yields: the value and the position after it,
\* or a JSONDecodeError
Scanned(val, next) == [ok |-> TRUE, val |-> val, end |-> next]
DecodeError == [ok |-> FALSE, val |-> NoValue, end |-> 0]

\* WHITESPACE.match(s, i).end()
RECURSIVE SkipWs(_, _)
SkipWs(t, i) == IF i <= Len(t) /\ t[i] \in Whitespace THEN SkipWs(t, i + 1) ELSE i

\* scanstring in strict mode, from the position after the opening quote: the
\* position of the closing quote, 0 when the string is not terminated or
\* holds a control character
RECURSIVE StringEnd(_, _)
StringEnd(t, i) ==
    IF i > Len(t) THEN 0
    ELSE IF t[i] = "\"" THEN i
    ELSE IF t[i] = "\n" THEN 0
    ELSE StringEnd(t, i + 1)

ScanString(t, i) ==
    LET close == StringEnd(t, i)
    IN  IF close = 0 THEN DecodeError
        ELSE Scanned(Str(SubSeq(t, i, close - 1)), close + 1)

\* NUMBER_RE.match: the longest run of digits from position i
RECURSIVE NumberEnd(_, _)
NumberEnd(t, i) == IF i <= Len(t) /\ t[i] \in Digits THEN NumberEnd(t, i + 1) ELSE i

ScanNumber(t, i) == Scanned(Num(SubSeq(t, i, NumberEnd(t, i) - 1)), NumberEnd(t, i))

\* dict(pairs): a repeated key keeps its first position and takes the last value
AddMember(members, key, val) ==
    IF \E n \in DOMAIN members : members[n].k = key
    THEN [n \in DOMAIN members |->
             IF members[n].k = key THEN Member(key, val) ELSE members[n]]
    ELSE Append(members, Member(key, val))

RECURSIVE ScanOnce(_, _)

\* the loop of JSONObject, from the position after the opening quote of a key
RECURSIVE ScanMembers(_, _, _)
ScanMembers(t, i, members) ==
    LET key == ScanString(t, i) IN
    IF ~key.ok THEN DecodeError ELSE
    LET colon == SkipWs(t, key.end) IN
    IF colon > Len(t) \/ t[colon] # ":" THEN DecodeError ELSE
    LET value == ScanOnce(t, SkipWs(t, colon + 1)) IN
    IF ~value.ok THEN DecodeError ELSE
    LET pairs == AddMember(members, key.val.s, value.val)
        next == SkipWs(t, value.end)
    IN
    IF next > Len(t) THEN DecodeError
    ELSE IF t[next] = "}" THEN Scanned(Dict(pairs), next + 1)
    ELSE IF t[next] # "," THEN DecodeError
    ELSE LET name == SkipWs(t, next + 1) IN
         IF name > Len(t) \/ t[name] # "\"" THEN DecodeError
         ELSE ScanMembers(t, name + 1, pairs)

\* JSONObject, from the position after the opening brace
ScanObject(t, i) ==
    LET first == SkipWs(t, i) IN
    IF first > Len(t) THEN DecodeError
    ELSE IF t[first] = "}" THEN Scanned(Dict(<< >>), first + 1)
    ELSE IF t[first] # "\"" THEN DecodeError
    ELSE ScanMembers(t, first + 1, << >>)

\* scan_once: the value that starts at position i
ScanOnce(t, i) ==
    IF i > Len(t) THEN DecodeError
    ELSE IF t[i] = "\"" THEN ScanString(t, i + 1)
    ELSE IF t[i] = "{" THEN ScanObject(t, i + 1)
    ELSE IF t[i] \in Digits THEN ScanNumber(t, i)
    ELSE DecodeError

\* json.loads(text): one value, with nothing but whitespace around it
Loads(t) ==
    LET value == ScanOnce(t, SkipWs(t, 1)) IN
    IF value.ok /\ SkipWs(t, value.end) = Len(t) + 1 THEN value ELSE DecodeError

\* a mutation of RawDecode: no second attempt, the first error stands
NoRawDecode(t) == DecodeError

\* json.JSONDecoder().raw_decode(text): the value that starts at index 0;
\* what follows it is left unread
RawDecode(t) == ScanOnce(t, 1)

\* _parse_response as one function: the value returned, or the error raised
\* when both attempts fail
ParseResponse(response) ==
    LET t == Normalise(response)
        first == Loads(t)
    IN  IF first.ok THEN first
        ELSE RawDecode(t)

(***************************************************************************)
(* The replies of the model: a JSON object, written compactly or spread    *)
(* over lines, with or without text before it, an opening fence marker, a  *)
(* closing one and text after it.                                          *)
(***************************************************************************)
MaxMembers == 2         \* members of the object of a reply

KeyNames == <<"a", "b", "c", "d">>
JsonValues ==
    {Num(<<"5">>), Str(<<"a">>), Str(Fence), Dict(<< >>),
     Dict(<<Member(<<"b">>, Str(<<"}">>))>>)}
ObjectOf(values) ==
    Dict([n \in DOMAIN values |-> Member(<<KeyNames[n]>>, values[n])])
JsonObjects == {ObjectOf(values) : values \in SeqsUpTo(JsonValues, MaxMembers)}

\* the text of a value; gap is the whitespace written between its tokens
RECURSIVE Dumps(_, _)
RECURSIVE DumpMembers(_, _)
DumpMembers(members, gap) ==
    IF members = << >> THEN << >>
    ELSE <<"\"">> \o Head(members).k \o <<"\"", ":">> \o gap
         \o Dumps(Head(members).val, gap)
         \o (IF Tail(members) = << >> THEN << >>
             ELSE <<",">> \o gap \o DumpMembers(Tail(members), gap))
Dumps(value, gap) ==
    CASE value.t = "num" -> value.s
      [] value.t = "str" -> <<"\"">> \o value.s \o <<"\"">>
      [] value.t = "dict" ->
            <<"{">> \o gap \o DumpMembers(value.m, gap) \o gap \o <<"}">>

Gaps == {<< >>, <<"\n", " ">>}
Leads == {<< >>, <<" ", "\n">>, <<"H", ":", "\n">>}
Opens == {<< >>, Fence, JsonFence, Fence \o <<"p", "y">>, JsonFence \o <<"5">>}
Closes == {<< >>, <<"\n">> \o Fence}
Trails == {<< >>, <<"\n">>, <<"H">>, <<"\n", "H", "!">>, <<" ", "H">> \o Fence,
           <<"\n", "{", "H">>, <<"}">>}

Compose(written, lead, open, close, trail) ==
    lead \o open \o (IF open = << >> THEN << >> ELSE <<"\n">>) \o written
         \o close \o trail

Replies ==
    {[json |-> object, written |-> Dumps(object, gap), lead |-> lead,
      open |-> open, close |-> close, trail |-> trail] :
        object \in JsonObjects, gap \in Gaps, lead \in Leads, open \in Opens,
        close \in Closes, trail \in Trails}

ParseInit ==
    /\ reply \in Replies
    /\ response_text =
          Compose(reply.written, reply.lead, reply.open, reply.close, reply.trail)
    /\ text = << >>
    /\ parse_pc = "strip"
    /\ parsed = NoValue
    /\ full_resume_data = CorpusDefaults
    /\ trimmed_data = Null
    /\ verdict = NotRun
    /\ GenerationIdle
    /\ NormalizationIdle
    /\ SessionsIdle
    /\ FillIdle
    /\ UsersIdle

\* response_text.strip(), the fence markers removed, .strip() again
StripAndUnfence ==
    /\ parse_pc = "strip"
    /\ text' = Normalise(response_text)
    /\ parse_pc' = "loads"
    /\ UNCHANGED <<vvars, gvars, response_text, parsed, reply, mvars, svars, fvars, uvars>>

\* try: return json.loads(response_text)
TryLoads ==
    /\ parse_pc = "loads"
    /\ LET first == Loads(text) IN
          IF first.ok
          THEN parsed' = first.val /\ parse_pc' = "returned"
          ELSE parsed' = parsed /\ parse_pc' = "raw_decode"
    /\ UNCHANGED <<vvars, gvars, response_text, text, reply, mvars, svars, fvars, uvars>>

\* except json.JSONDecodeError: obj, idx = decoder.raw_decode(response_text);
\* return obj; a second JSONDecodeError is raised
TryRawDecode ==
    /\ parse_pc = "raw_decode"
    /\ LET second == RawDecode(text) IN
          IF second.ok
          THEN parsed' = second.val /\ parse_pc' = "returned"
          ELSE parsed' = parsed /\ parse_pc' = "raised"
    /\ UNCHANGED <<vvars, gvars, response_text, text, reply, mvars, svars, fvars, uvars>>

ParseNext ==
    \/ StripAndUnfence
    \/ TryLoads
    \/ TryRawDecode

SpecParse == ParseInit /\ [][ParseNext]_vars

(***************************************************************************)
(* What the specification says of the parser (spec.md 4.1, P5, Scenario    *)
(* C), stated on how the reply was composed.                               *)
(***************************************************************************)
ParseFinished == parse_pc \in {"returned", "raised"}
NothingBefore == reply.lead \in {<< >>, <<" ", "\n">>}
Fenced == reply.open # << >> /\ reply.close # << >>

C10_AnyLanguageTag ==
    (ParseFinished /\ NothingBefore /\ Fenced /\ reply.trail = << >>) =>
        /\ parse_pc = "returned"
        /\ parsed = reply.json

(***************************************************************************)
(* C11.  _parse_response extracts the single JSON object from a reply in   *)
(* which explanatory prose surrounds it: prose placed before the object,   *)
(* or before the opening fence, as well as prose placed after it.  Stated  *)
(* on a finished call whose reply carries prose before the object, with no *)
(* fence or with the json fence: it returned the object.                   *)
(***************************************************************************)
ProseBefore == reply.lead = <<"H", ":", "\n">>

C11_ProseAroundObject ==
    (ParseFinished /\ ProseBefore /\ reply.open \in {<< >>, JsonFence}) =>
        /\ parse_pc = "returned"
        /\ parsed = reply.json

(***************************************************************************)
(* C12.  A fatal error in one invocation of select_resume_content, a       *)
(* failed service call or a reply that stays unparseable after both parse  *)
(* attempts, propagates to the caller as an exception: the later stages    *)
(* (parse, validate) do not run and neither a trimmed selection nor a      *)
(* verdict is returned.  Stated on every state of a run whose call fails   *)
(* or whose reply does not parse: the run is at the call, at the parse or  *)
(* has raised, a failed call is not parsed, there is no selection and no   *)
(* verdict, and the caller has produced nothing.                           *)
(***************************************************************************)
FatalError == ~service.up \/ ~service.parses

C12_FatalErrorPropagates ==
    (stage # "idle" /\ FatalError) =>
        /\ stage \in {"init", "compose", "call", "parse", "raised"}
        /\ ~service.up => stage # "parse"
        /\ trimmed_data = Null
        /\ verdict = NotRun
        /\ produced = Nothing

\* the call succeeded, the reply did not parse and the exception has left
\* select_resume_content
C12_Witness ==
    /\ stage = "raised"
    /\ service.up
    /\ ~service.parses
    /\ verdict = NotRun

(***************************************************************************)
(* C13.  In one invocation the generation service is called at most once:  *)
(* exactly once when a credential is configured (no retry after a failed   *)
(* call, no second call after a parse failure or a failing verdict) and    *)
(* not at all when the credential is missing, in which case the            *)
(* configuration error is raised before any call.                          *)
(***************************************************************************)
BeforeCall == stage \in {"init", "compose", "call"}

C13_CalledAtMostOnce ==
    (stage # "idle") =>
        /\ calls <= 1
        /\ ~credential => calls = 0 /\ stage \in {"init", "raised"}
        /\ (credential /\ ~BeforeCall) => calls = 1
        /\ BeforeCall => calls = 0

\* a run with a failing verdict has gone through to the end on one call
C13_Witness ==
    /\ stage = "complete"
    /\ FailingVerdict
    /\ credential
    /\ calls = 1

(***************************************************************************)
(* C14.  In exact mode (should_rewrite_selected = False), every bullet     *)
(* text and every project description of the TrimmedSelection returned by  *)
(* select_resume_content is byte-identical to a bullet text, respectively  *)
(* the description, of the corpus company or project with the same id.     *)
(***************************************************************************)
SelectionReturned == ReturnedVerdict /\ stage \notin {"idle", "validate"}

C14_ExactModeVerbatim ==
    (SelectionReturned /\ ~should_rewrite_selected) => selection_texts = "verbatim"

(***************************************************************************)
(* C19.  For a fixed corpus and a fixed rewrite flag, the system blocks    *)
(* built by _build_prompt_with_caching are the same for any two job        *)
(* descriptions: the job description reaches the user message and no part  *)
(* of the stable (cacheable) blocks.                                       *)
(***************************************************************************)
Composed == request # NoRequest

C19_SystemBlocksIgnoreJobDescription ==
    Composed =>
        /\ \A other \in JobDescriptions :
              /\ BuildPromptWithCaching(full_resume_data, other,
                                        should_rewrite_selected).system_blocks
                     = request.system_blocks
              /\ BuildPromptWithCaching(full_resume_data, other,
                                        should_rewrite_selected).user_message
                     = <<"user_prompt_template", other>>
        /\ request.user_message = <<"user_prompt_template", job_description>>

C19_Witness ==
    /\ Composed
    /\ job_description = <<"backend", "ml">>
    /\ should_rewrite_selected
    /\ Len(request.system_blocks[1].text.company_constraints) > 0
    /\ Len(request.system_blocks[1].text.skills_constraints) > 0
    /\ calls = 1

(***************************************************************************)
(* C20.  One invocation of the selection pipeline runs its stages in the   *)
(* fixed order normalize, derive constraints, compose request, one         *)
(* blocking service call, parse, validate, return: every stage of the list *)
(* is executed on a successful run, and a stage starts only after the      *)
(* previous one has completed successfully.                                *)
(***************************************************************************)
PipelineStages == <<"normalize", "derive constraints", "compose request",
                    "service call", "parse", "validate">>

IsPrefix(s, t) == Len(s) <= Len(t) /\ \A i \in DOMAIN s : s[i] = t[i]

C20_FixedStageOrder ==
    /\ IsPrefix(stages_run, PipelineStages)
    /\ SelectionReturned => stages_run = PipelineStages

(***************************************************************************)
(* Normalization of a corpus: migrate_v1_to_v2 and migrate_data_in_memory  *)
(* of migrate_resume_json.py.  Here a JSON value is [t, v] with the list   *)
(* or the map itself as v; the skill items are held as <<category, n>>.    *)
(* Both functions work on the object they are handed: what they return is  *)
(* that object, so the value of a call is also what the caller's object    *)
(* holds after it.                                                         *)
(***************************************************************************)
JDict(f) == [t |-> "dict", v |-> f]
JList(seq) == [t |-> "list", v |-> seq]
DictGet(d, key, default) == IF key \in DOMAIN d.v THEN d.v[key] ELSE default
\* if items: a list with elements (or a map with keys)
Truthy(x) ==
    \/ x.t = "list" /\ Len(x.v) > 0
    \/ x.t = "dict" /\ DOMAIN x.v # {}

category_mapping ==
    <<[key |-> "languages", title |-> "Languages", default_min |-> 5, default_max |-> 8],
      [key |-> "platforms", title |-> "Platforms", default_min |-> 5, default_max |-> 8],
      [key |-> "skills", title |-> "Skills", default_min |-> 8, default_max |-> 12],
      [key |-> "frameworks", title |-> "Frameworks", default_min |-> 8, default_max |-> 15],
      [key |-> "tools", title |-> "Tools", default_min |-> 6, default_max |-> 10],
      [key |-> "database", title |-> "Database", default_min |-> 4, default_max |-> 6]>>

\* f"{category_key}_mandatory"
MandatoryKey(category_key) ==
    CASE category_key = "languages" -> "languages_mandatory"
      [] category_key = "platforms" -> "platforms_mandatory"
      [] category_key = "skills" -> "skills_mandatory"
      [] category_key = "frameworks" -> "frameworks_mandatory"
      [] category_key = "tools" -> "tools_mandatory"
      [] category_key = "database" -> "database_mandatory"

\* what a call yields: the value returned, or the exception raised
Return(value) == [raised |-> FALSE, exc |-> "", value |-> value]
Throw(exc, value) == [raised |-> TRUE, exc |-> exc, value |-> value]

\* a mutation of SkillSection: the section is built from the defaults alone
SkillSectionDefaults(mapping, items, mandatory_items, category_config) ==
    [title |-> mapping.title, items |-> items, mandatoryItems |-> mandatory_items,
     min |-> mapping.default_min, max |-> mapping.default_max]

\* skill_section = {"title": ..., "items": ..., "mandatoryItems": ..., "min": ..., "max": ...}
SkillSection(mapping, items, mandatory_items, category_config) ==
    [title |-> mapping.title, items |-> items, mandatoryItems |-> mandatory_items,
     min |-> DictGet(category_config, "min", mapping.default_min),
     max |-> DictGet(category_config, "max", mapping.default_max)]

\* the loop over category_mapping, from its i-th entry on: the sections
\* appended, or the AttributeError of a .get on a value that is no dict
RECURSIVE MigrateLoop(_, _, _)
MigrateLoop(old_skills, skills_config, i) ==
    IF i > Len(category_mapping) THEN Return(<< >>) ELSE
    LET mapping == category_mapping[i]
        items == DictGet(old_skills, mapping.key, JList(<< >>))
        mandatory_items == DictGet(old_skills, MandatoryKey(mapping.key), JList(<< >>))
        rest == MigrateLoop(old_skills, skills_config, i + 1)
    IN  IF ~Truthy(items) THEN rest
        ELSE IF skills_config.t # "dict" THEN Throw("AttributeError", << >>)
        ELSE LET category_config == DictGet(skills_config, mapping.key, JDict(EmptyDict)) IN
             IF category_config.t # "dict" THEN Throw("AttributeError", << >>)
             ELSE IF rest.raised THEN rest
             ELSE Return(<<SkillSection(mapping, items, mandatory_items, category_config)>>
                         \o rest.value)

\* a mutation of MigrateV1ToV2: the test for a skills value that is no map is
\* missing, and the .get on it raises
MigrateV1ToV2Unguarded(d) ==
    IF d.t # "dict" THEN Return(d)
    ELSE IF "skills" \notin DOMAIN d.v THEN Return(d)
    ELSE Throw("AttributeError", d)

\* migrate_v1_to_v2(data): the object after the call, which is the value
\* returned; an exception leaves the object as it was
MigrateV1ToV2(d) ==
    IF d.t # "dict" THEN Return(d)
    ELSE IF "skills" \notin DOMAIN d.v THEN Return(d)
    ELSE IF d.v.skills.t # "dict" THEN Return(d)
    ELSE LET config == DictGet(d, "config", JDict(EmptyDict)) IN
         IF config.t # "dict" THEN Throw("AttributeError", d)
         ELSE LET skills_config == DictGet(config, "skills_per_category", JDict(EmptyDict))
                  new_skills == MigrateLoop(d.v.skills, skills_config, 1)
              IN  IF new_skills.raised THEN Throw(new_skills.exc, d)
                  ELSE Return(JDict(With(With(d.v, "skills", JList(new_skills.value)),
                                         "version", "2.0")))

\* migrate_data_in_memory(data): (migrated_data, success, message); every
\* exception is caught and reported as a failure
MigrateDataInMemory(d) ==
    IF d.t # "dict" THEN [value |-> d, success |-> FALSE]
    ELSE IF DictGet(d, "version", "1.0") = "2.0" THEN [value |-> d, success |-> TRUE]
    ELSE LET migrated_data == MigrateV1ToV2(d) IN
         IF migrated_data.raised THEN [value |-> d, success |-> FALSE]
         ELSE [value |-> migrated_data.value, success |-> TRUE]

(***************************************************************************)
(* The corpora handed to the normalization.  A legacy corpus has a skills  *)
(* map in which the categories of populated hold items, the others hold    *)
(* an empty list or are absent, and some carry a mandatory list.           *)
(***************************************************************************)
MaxPasses == 2          \* calls made on one corpus object

CategoryKeys == {category_mapping[i].key : i \in DOMAIN category_mapping}
Items(category_key, n) == JList([i \in 1..n |-> <<category_key, i>>])

LegacySkills(populated, n, listed, mandatory) ==
    LET present == populated \cup listed
        keys == present \cup {MandatoryKey(c) : c \in mandatory}
    IN  JDict([k \in keys |->
                  IF k \in populated THEN Items(k, n)
                  ELSE IF k \in listed THEN JList(<< >>)
                  ELSE LET c == CHOOSE c \in mandatory : MandatoryKey(c) = k
                       IN  JList(<<<<c, 1>>>>)])

\* config.skills_per_category over the categories of configured
SkillsPerCategory(configured, constraints) == JDict([c \in configured |-> constraints])

Configs ==
    {JDict(EmptyDict),
     JDict([skills_per_category |->
                SkillsPerCategory(CategoryKeys, JDict([min |-> 1, max |-> 2]))]),
     JDict([skills_per_category |->
                SkillsPerCategory({"languages"}, JDict([min |-> 1]))]),
     JDict([skills_per_category |->
                SkillsPerCategory({"tools", "database"}, JDict([max |-> 2]))]),
     JDict([skills_per_category |-> SkillsPerCategory({"languages"}, Null)]),
     JDict([skills_per_category |-> Null]),
     Null}

LegacySkillMaps ==
    UNION {{LegacySkills(populated, n, listed, mandatory) :
               n \in 1..MaxItems,
               listed \in {{}, CategoryKeys \ populated},
               mandatory \in {{}, populated, {"skills"}}} :
           populated \in SUBSET CategoryKeys}

LegacyCorpora ==
    {JDict(fields) :
        fields \in UNION {
            {[skills |-> skills], [skills |-> skills, config |-> config],
             [skills |-> skills, config |-> config, version |-> "1.0"],
             [skills |-> skills, config |-> config, version |-> "2.0"]} :
                skills \in LegacySkillMaps, config \in Configs}}

\* corpora whose skills is already the array of sections, with or without the
\* version field
CanonicalSkillSections ==
    {JList(<< >>),
     JList(<<[title |-> "Languages", items |-> Items("languages", 1),
              mandatoryItems |-> JList(<< >>), min |-> 1, max |-> 2]>>)}
CanonicalCorpora ==
    {JDict(fields) :
        fields \in UNION {
            {[skills |-> skills], [skills |-> skills, version |-> "2.0"],
             [skills |-> skills, version |-> "2.0", config |-> config]} :
                skills \in CanonicalSkillSections, config \in Configs}}

\* corpora without a skills map to migrate, and a file that holds a list
OtherCorpora ==
    {JDict(EmptyDict), JDict([skills |-> Null]), JDict([version |-> "1.0"]),
     JList(<< >>)}

MigrationInputs == LegacyCorpora \cup CanonicalCorpora \cup OtherCorpora

(***************************************************************************)
(* The Summaries section of the edit page (edit_page.py): a legacy         *)
(* summaries map is replaced by a list of {id, label, text}.  The map, an  *)
(* ordered dict, is held as the sequence of its items; a formatted string  *)
(* as the sequence of its parts.                                           *)
(***************************************************************************)
SummaryKeys == {"android", "backend", "ml"}
SummaryItem(key) == [key |-> key, text |-> <<"text of ", key>>]

\* the sequences without repetition over S, of length up to n
Orderings(S, n) ==
    {seq \in SeqsUpTo(S, n) : \A i, j \in DOMAIN seq : i # j => seq[i] # seq[j]}

SummaryMaps ==
    {[t |-> "dict", v |-> [i \in DOMAIN keys |-> SummaryItem(keys[i])]] :
        keys \in Orderings(SummaryKeys, MaxSummaries)}
SummaryLists ==
    {JList([i \in DOMAIN keys |->
               [id |-> <<keys[i]>>, label |-> <<keys[i]>>, text |-> <<"text of ", keys[i]>>]]) :
        keys \in Orderings(SummaryKeys, MaxSummaries)}

SummariesInputs ==
    {JDict([summaries |-> summaries]) : summaries \in SummaryMaps \cup SummaryLists}
    \cup {JDict(EmptyDict), JDict([summaries |-> Null])}

\* [{"id": f"summary_{i+1}", "label": f"Option {i+1}", "text": text}
\*  for i, text in enumerate(summaries.values())]
ConvertSummaries(summaries) ==
    JList([i \in DOMAIN summaries.v |->
              [id |-> <<"summary_", ToString(i)>>,
               label |-> <<"Option ", ToString(i)>>,
               text |-> summaries.v[i].text]])

\* the head of the Summaries section: the object after it and the local
\* list the section goes on with
ShowSummaries(d) ==
    LET summaries == DictGet(d, "summaries", JList(<< >>)) IN
    IF summaries.t = "dict"
    THEN [object |-> JDict(With(d.v, "summaries", ConvertSummaries(summaries))),
          summaries |-> ConvertSummaries(summaries)]
    ELSE IF summaries.t = "list" THEN [object |-> d, summaries |-> summaries]
    ELSE [object |-> d, summaries |-> JList(<< >>)]

Normalizations == {"migrate_v1_to_v2", "migrate_data_in_memory"}

NormalizeInit ==
    /\ \/ entry \in Normalizations /\ data \in MigrationInputs
       \/ entry = "show" /\ data \in SummariesInputs
    /\ before = data
    /\ passes = 0
    /\ outcome = NoOutcome
    /\ full_resume_data = CorpusDefaults
    /\ trimmed_data = Null
    /\ verdict = NotRun
    /\ GenerationIdle
    /\ ParserIdle
    /\ SessionsIdle
    /\ FillIdle
    /\ UsersIdle

Returns(value, success) ==
    [status |-> "returned", value |-> value, success |-> success, exc |-> ""]
Raises(exc) == [status |-> "raised", value |-> Null, success |-> FALSE, exc |-> exc]

\* migrated = migrate_v1_to_v2(data)
CallMigrateV1ToV2 ==
    /\ entry = "migrate_v1_to_v2"
    /\ passes < MaxPasses
    /\ outcome.status # "raised"
    /\ LET call == MigrateV1ToV2(data) IN
          /\ data' = call.value
          /\ outcome' = IF call.raised THEN Raises(call.exc)
                        ELSE Returns(call.value, TRUE)
    /\ passes' = passes + 1
    /\ UNCHANGED <<vvars, gvars, pvars, before, entry, svars, fvars, uvars>>

\* migrated, success, message = migrate_data_in_memory(data)
CallMigrateDataInMemory ==
    /\ entry = "migrate_data_in_memory"
    /\ passes < MaxPasses
    /\ LET call == MigrateDataInMemory(data) IN
          /\ data' = call.value
          /\ outcome' = Returns(call.value, call.success)
    /\ passes' = passes + 1
    /\ UNCHANGED <<vvars, gvars, pvars, before, entry, svars, fvars, uvars>>

\* the edit page renders its Summaries section
RenderSummaries ==
    /\ entry = "show"
    /\ passes < MaxPasses
    /\ LET call == ShowSummaries(data) IN
          /\ data' = call.object
          /\ outcome' = Returns(call.summaries, TRUE)
    /\ passes' = passes + 1
    /\ UNCHANGED <<vvars, gvars, pvars, before, entry, svars, fvars, uvars>>

NormalizeNext ==
    \/ CallMigrateV1ToV2
    \/ CallMigrateDataInMemory
    \/ RenderSummaries

SpecNormalize == NormalizeInit /\ [][NormalizeNext]_vars

(***************************************************************************)
(* What the specification says of the normalization (spec.md 4.3, P6),     *)
(* stated on the corpus before the call and the value returned.            *)
(***************************************************************************)
Migrated == entry = "migrate_v1_to_v2" /\ passes >= 1
HadSkillsMap ==
    /\ before.t = "dict"
    /\ "skills" \in DOMAIN before.v
    /\ before.v.skills.t = "dict"
\* config, config.skills_per_category and each category's entry are maps
\* where they are present
ConfigWellFormed ==
    /\ "config" \in DOMAIN before.v => before.v.config.t = "dict"
    /\ ("config" \in DOMAIN before.v
            /\ "skills_per_category" \in DOMAIN before.v.config.v) =>
          /\ before.v.config.v.skills_per_category.t = "dict"
          /\ \A c \in DOMAIN before.v.config.v.skills_per_category.v :
                before.v.config.v.skills_per_category.v[c].t = "dict"

CategoryOrder == <<"languages", "platforms", "skills", "frameworks", "tools", "database">>
CategoryTitle ==
    [languages |-> "Languages", platforms |-> "Platforms", skills |-> "Skills",
     frameworks |-> "Frameworks", tools |-> "Tools", database |-> "Database"]
CategoryDefault ==
    [languages |-> <<5, 8>>, platforms |-> <<5, 8>>, skills |-> <<8, 12>>,
     frameworks |-> <<8, 15>>, tools |-> <<6, 10>>, database |-> <<4, 6>>]
MandatoryOf ==
    [languages |-> "languages_mandatory", platforms |-> "platforms_mandatory",
     skills |-> "skills_mandatory", frameworks |-> "frameworks_mandatory",
     tools |-> "tools_mandatory", database |-> "database_mandatory"]

OldSkills == before.v.skills.v
IsPopulated(c) == c \in DOMAIN OldSkills /\ OldSkills[c].t = "list" /\ Len(OldSkills[c].v) > 0
PopulatedInOrder == SelectSeq(CategoryOrder, IsPopulated)

\* the bound a category's section is to carry: the configured one, else the default
ConfiguredBound(c, name, default) ==
    IF /\ "config" \in DOMAIN before.v
       /\ "skills_per_category" \in DOMAIN before.v.config.v
       /\ c \in DOMAIN before.v.config.v.skills_per_category.v
       /\ name \in DOMAIN before.v.config.v.skills_per_category.v[c].v
    THEN before.v.config.v.skills_per_category.v[c].v[name]
    ELSE default

(***************************************************************************)
(* C15.  migrate_v1_to_v2 turns a legacy skills map with N populated       *)
(* categories among languages, platforms, skills, frameworks, tools,       *)
(* database into exactly N skill sections, in that fixed category order,   *)
(* each carrying the category's items, its <category>_mandatory list as    *)
(* mandatoryItems, and min/max taken from config.skills_per_category or    *)
(* else from the per-category default (5/8, 5/8, 8/12, 8/15, 6/10, 4/6);   *)
(* a category with no items produces no section.                           *)
(***************************************************************************)
C15_SectionsOfPopulatedCategories ==
    (Migrated /\ HadSkillsMap /\ ConfigWellFormed) =>
        /\ outcome.status = "returned"
        /\ outcome.value.v.skills.t = "list"
        /\ LET sections == outcome.value.v.skills.v IN
              /\ Len(sections) = Len(PopulatedInOrder)
              /\ \A i \in DOMAIN sections :
                    LET c == PopulatedInOrder[i] IN
                    /\ sections[i].title = CategoryTitle[c]
                    /\ sections[i].items = OldSkills[c]
                    /\ sections[i].mandatoryItems =
                          (IF MandatoryOf[c] \in DOMAIN OldSkills
                           THEN OldSkills[MandatoryOf[c]] ELSE JList(<< >>))
                    /\ sections[i].min = ConfiguredBound(c, "min", CategoryDefault[c][1])
                    /\ sections[i].max = ConfiguredBound(c, "max", CategoryDefault[c][2])

\* three of the six categories are populated, an unpopulated one is listed
\* empty, and the first section has a configured min and a default max
C15_Witness ==
    /\ Migrated
    /\ HadSkillsMap
    /\ ConfigWellFormed
    /\ Len(PopulatedInOrder) = 3
    /\ \E c \in DOMAIN OldSkills : OldSkills[c].v = << >>
    /\ outcome.value.v.skills.v[1].min = 1
    /\ outcome.value.v.skills.v[1].max = 8

(***************************************************************************)
(* C16.  Normalizing a corpus that is already canonical (skills already an *)
(* array of sections) returns it unchanged, and for every corpus           *)
(* normalizing twice gives the same result as normalizing once.  Stated    *)
(* for migrate_v1_to_v2 and migrate_data_in_memory: after a call on a      *)
(* canonical corpus the value returned is the corpus as it was, and a call *)
(* that follows a call changes neither the object nor the value returned.  *)
(***************************************************************************)
Normalized == entry \in Normalizations /\ passes >= 1
WasCanonical ==
    /\ before.t = "dict"
    /\ "skills" \in DOMAIN before.v
    /\ before.v.skills.t = "list"

CanonicalUnchanged ==
    (Normalized /\ WasCanonical) =>
        /\ outcome.status = "returned"
        /\ outcome.value = before
        /\ data = before

SecondCallChangesNothing ==
    (Normalized /\ passes' = passes + 1) =>
        /\ outcome'.status = outcome.status
        /\ outcome'.value = outcome.value
        /\ data' = data

C16_Idempotent == [](CanonicalUnchanged) /\ [][SecondCallChangesNothing]_vars

\* a legacy corpus has been normalized twice and holds the array of sections
C16_Witness ==
    /\ Normalized
    /\ passes = 2
    /\ HadSkillsMap
    /\ outcome.status = "returned"
    /\ outcome.value.v.skills.t = "list"
    /\ Len(outcome.value.v.skills.v) > 0

(***************************************************************************)
(* C17.  A legacy summaries map keyed by label is converted to an ordered  *)
(* list of {id, label, text} with one entry per map key, in map order,     *)
(* where the entry's label is the original key, its id is derived from     *)
(* that key and its text is the key's text; summaries that are already a   *)
(* list are left unchanged.                                                *)
(***************************************************************************)
Rendered == entry = "show" /\ passes >= 1
HadSummaries(kind) ==
    /\ "summaries" \in DOMAIN before.v
    /\ before.v.summaries.t = kind

C17_SummariesKeepTheirLabels ==
    /\ (Rendered /\ HadSummaries("dict")) =>
          /\ data.v.summaries.t = "list"
          /\ Len(data.v.summaries.v) = Len(before.v.summaries.v)
          /\ \A i \in DOMAIN data.v.summaries.v :
                /\ data.v.summaries.v[i].text = before.v.summaries.v[i].text
                /\ data.v.summaries.v[i].label = <<before.v.summaries.v[i].key>>
                /\ before.v.summaries.v[i].key \in Range(data.v.summaries.v[i].id)
    /\ (Rendered /\ HadSummaries("list")) => data = before

(***************************************************************************)
(* C18.  Normalization is a pure transform: migrate_v1_to_v2 and           *)
(* migrate_data_in_memory do not modify the corpus object passed in (after *)
(* the call the caller's legacy corpus still holds its original skills map *)
(* and has no version field added), and they return a result for every     *)
(* input instead of raising.                                               *)
(***************************************************************************)
C18_PureTransform ==
    Normalized =>
        /\ outcome.status = "returned"
        /\ HadSkillsMap =>
              /\ data.v.skills.t = "dict"
              /\ "version" \in DOMAIN data.v => "version" \in DOMAIN before.v
(***************************************************************************)
(* The runs that produce documents: the generate page and the edit and     *)
(* regenerate page of a UI session (generate_page.py, edit_regenerate_     *)
(* page.py) and generate_resume (main.py).  Each run is a thread of its    *)
(* own; the steps below are the statements that touch files, and steps of  *)
(* different runs interleave.  A page session works in ./generated and     *)
(* saves into the folder of its company; generate_resume works in a        *)
(* directory named by the selection's title and the date, taken to differ  *)
(* between the runs.  The selection of a run is the one object the page    *)
(* puts into st.session_state.trimmed_data; what a file holds is the       *)
(* selection it was written from.  The runs being alike, the first is a    *)
(* page session for the first company; the second is any run.              *)
(***************************************************************************)
MaxEdits == 1           \* edits a session makes on its selection
MaxRegenerations == 1   \* times a session presses Generate New PDF

Runs == {"r1", "r2"}
Runners == {"page", "cli"}
CompanyNames == {"Acme", "Globex"}
ExitCodes == {0, 1}

\* the versions a company folder can reach: one per save
MaxVersion == Cardinality(Runs) * (1 + MaxRegenerations)
Versions == 1..MaxVersion

\* the object _parse_response created for the run
ParserOutput(r) == [owner |-> r, rev |-> 0]

\* output_dir of the run
WorkDir(r) == IF runner[r] = "page" THEN "generated" ELSE r
Dirs == {"generated"} \cup Runs

NoFiles == [json |-> NoFile, tex |-> NoFile, pdf |-> NoFile]
NoVersion == [pdf |-> NoFile, json |-> NoFile, pdf_by |-> "none", json_by |-> "none"]

SessionsInit ==
    /\ runner \in {f \in [Runs -> Runners] : f["r1"] = "page"}
    /\ company_name \in {f \in [Runs -> CompanyNames] : f["r1"] = "Acme"}
    /\ pc = [r \in Runs |-> "select"]
    /\ trimmed_object = [r \in Runs |-> NoFile]
    /\ handed = [r \in Runs |-> NoFile]
    /\ version = [r \in Runs |-> 0]
    /\ latest_saved_version = [r \in Runs |-> 0]
    /\ runs = [r \in Runs |-> 0]
    /\ regenerations = [r \in Runs |-> 0]
    /\ output_dir = [d \in Dirs |-> NoFiles]
    /\ company_dir = [c \in CompanyNames |-> [v \in Versions |-> NoVersion]]
    /\ full_resume_data = CorpusDefaults
    /\ trimmed_data = Null
    /\ verdict = NotRun
    /\ GenerationIdle
    /\ ParserIdle
    /\ NormalizationIdle
    /\ FillIdle
    /\ UsersIdle

\* trimmed_data, (is_valid, validation_message) = selector.select_resume_content(...)
\* st.session_state.trimmed_data = trimmed_data
SelectContent(r) ==
    /\ pc[r] = "select"
    /\ trimmed_object' = [trimmed_object EXCEPT ![r] = ParserOutput(r)]
    /\ pc' = [pc EXCEPT ![r] = "save"]
    /\ UNCHANGED <<vvars, gvars, pvars, mvars, runner, company_name, handed, version, latest_saved_version, runs, regenerations, output_dir, company_dir, fvars, uvars>>

\* json.dump(trimmed_data, f) into output_dir / resume_data_trimmed.json
SaveTrimmedJson(r) ==
    /\ pc[r] = "save"
    /\ output_dir' = [output_dir EXCEPT ![WorkDir(r)].json = trimmed_object[r]]
    /\ pc' = [pc EXCEPT ![r] = "fill"]
    /\ UNCHANGED <<vvars, gvars, pvars, mvars, runner, company_name, trimmed_object, handed, version, latest_saved_version, runs, regenerations, company_dir, fvars, uvars>>

\* fill_latex_template(template_path, trimmed_data, output_dir / resume_filled.tex)
FillTemplate(r) ==
    /\ pc[r] = "fill"
    /\ output_dir' = [output_dir EXCEPT ![WorkDir(r)].tex = trimmed_object[r]]
    /\ handed' = [handed EXCEPT ![r] = trimmed_object[r]]
    /\ runs' = [runs EXCEPT ![r] = 0]
    /\ pc' = [pc EXCEPT ![r] = IF runner[r] = "page" THEN "compile" ELSE "pass1"]
    /\ UNCHANGED <<vvars, gvars, pvars, mvars, runner, company_name, trimmed_object, version, latest_saved_version, regenerations, company_dir, fvars, uvars>>

\* one run of lualatex on the filled source of directory d: with exit code 0
\* the PDF of the directory is that of the source now in it
Lualatex(d, code) ==
    IF code = 0 THEN [output_dir EXCEPT ![d].pdf = output_dir[d].tex]
    ELSE output_dir

\* compile_latex_to_pdf, pass 1: subprocess.run(command, check=True); without
\* lualatex on the PATH, FileNotFoundError and None
CompilePass1(r) ==
    /\ pc[r] = "pass1"
    /\ \E found \in BOOLEAN, code \in ExitCodes :
          IF found
          THEN /\ runs' = [runs EXCEPT ![r] = @ + 1]
               /\ output_dir' = Lualatex(WorkDir(r), code)
               /\ pc' = [pc EXCEPT ![r] = IF code = 0 THEN "pass2" ELSE "failed"]
          ELSE /\ runs' = runs
               /\ output_dir' = output_dir
               /\ pc' = [pc EXCEPT ![r] = "failed"]
    /\ UNCHANGED <<vvars, gvars, pvars, mvars, runner, company_name, trimmed_object, handed, version, latest_saved_version, regenerations, company_dir, fvars, uvars>>

\* compile_latex_to_pdf, pass 2, and the return of the PDF's path; a
\* CalledProcessError of either pass prints the last 10 lines of the log and
\* returns None
CompilePass2(r) ==
    /\ pc[r] = "pass2"
    /\ \E code \in ExitCodes :
          /\ runs' = [runs EXCEPT ![r] = @ + 1]
          /\ output_dir' = Lualatex(WorkDir(r), code)
          /\ pc' = [pc EXCEPT ![r] = IF code = 0 THEN "done" ELSE "failed"]
    /\ UNCHANGED <<vvars, gvars, pvars, mvars, runner, company_name, trimmed_object, handed, version, latest_saved_version, regenerations, company_dir, fvars, uvars>>

\* the generate page: result = subprocess.run(['lualatex', ...]); a non-zero
\* returncode shows the last 1000 characters of the output and stops
RunLualatex(r) ==
    /\ pc[r] = "compile"
    /\ \E code \in ExitCodes :
          /\ runs' = [runs EXCEPT ![r] = @ + 1]
          /\ output_dir' = Lualatex(WorkDir(r), code)
          /\ pc' = [pc EXCEPT ![r] = IF code = 0 THEN "version" ELSE "stopped"]
    /\ UNCHANGED <<vvars, gvars, pvars, mvars, runner, company_name, trimmed_object, handed, version, latest_saved_version, regenerations, company_dir, fvars, uvars>>

\* version = start; while (company_dir / f"{safe_company}_{version}.pdf").exists():
\*     version += 1
NextFree(c, start) ==
    CHOOSE v \in start..(MaxVersion + 1) :
        /\ v \in Versions => company_dir[c][v].pdf = NoFile
        /\ \A w \in start..(v - 1) : company_dir[c][w].pdf # NoFile

FindVersion(r) ==
    /\ pc[r] = "version"
    /\ version' = [version EXCEPT ![r] = NextFree(company_name[r], 1)]
    /\ pc' = [pc EXCEPT ![r] = "copy"]
    /\ UNCHANGED <<vvars, gvars, pvars, mvars, runner, company_name, trimmed_object, handed, latest_saved_version, runs, regenerations, output_dir, company_dir, fvars, uvars>>

\* shutil.copy(pdf_path, versioned_pdf)
CopiedPdf(r) ==
    [company_dir EXCEPT ![company_name[r]][version[r]].pdf = output_dir[WorkDir(r)].pdf,
                        ![company_name[r]][version[r]].pdf_by = r]

CopyPdf(r) ==
    /\ pc[r] = "copy"
    /\ version[r] \in Versions
    /\ company_dir' = CopiedPdf(r)
    /\ pc' = [pc EXCEPT ![r] = "json"]
    /\ UNCHANGED <<vvars, gvars, pvars, mvars, runner, company_name, trimmed_object, handed, version, latest_saved_version, runs, regenerations, output_dir, fvars, uvars>>

\* json.dump(trimmed_data, f) into the versioned JSON, and
\* st.session_state.latest_saved_version = version
SavedJson(r) ==
    [company_dir EXCEPT ![company_name[r]][version[r]].json = trimmed_object[r],
                        ![company_name[r]][version[r]].json_by = r]

SaveVersionedJson(r) ==
    /\ pc[r] = "json"
    /\ company_dir' = SavedJson(r)
    /\ latest_saved_version' = [latest_saved_version EXCEPT ![r] = version[r]]
    /\ pc' = [pc EXCEPT ![r] = "edit"]
    /\ UNCHANGED <<vvars, gvars, pvars, mvars, runner, company_name, trimmed_object, handed, version, runs, regenerations, output_dir, fvars, uvars>>

\* the edit and regenerate page: a chip, a text area or an Add button assigns
\* into st.session_state.trimmed_data
EditSelection(r) ==
    /\ pc[r] = "edit"
    /\ trimmed_object[r].rev < MaxEdits
    /\ trimmed_object' = [trimmed_object EXCEPT ![r].rev = @ + 1]
    /\ UNCHANGED <<vvars, gvars, pvars, mvars, runner, company_name, pc, handed, version, latest_saved_version, runs, regenerations, output_dir, company_dir, fvars, uvars>>

\* Generate New PDF: fill_latex_template(template_path,
\*     st.session_state.trimmed_data, filled_tex)
RegenerateFill(r) ==
    /\ pc[r] = "edit"
    /\ regenerations[r] < MaxRegenerations
    /\ regenerations' = [regenerations EXCEPT ![r] = @ + 1]
    /\ output_dir' = [output_dir EXCEPT ![WorkDir(r)].tex = trimmed_object[r]]
    /\ handed' = [handed EXCEPT ![r] = trimmed_object[r]]
    /\ runs' = [runs EXCEPT ![r] = 0]
    /\ pc' = [pc EXCEPT ![r] = "recompile"]
    /\ UNCHANGED <<vvars, gvars, pvars, mvars, runner, company_name, trimmed_object, version, latest_saved_version, company_dir, fvars, uvars>>

\* Generate New PDF: subprocess.run(['lualatex', ...]); a non-zero returncode
\* shows the output's tail and stops, the page stays
RegenerateCompile(r) ==
    /\ pc[r] = "recompile"
    /\ \E code \in ExitCodes :
          /\ runs' = [runs EXCEPT ![r] = @ + 1]
          /\ output_dir' = Lualatex(WorkDir(r), code)
          /\ pc' = [pc EXCEPT ![r] = IF code = 0 THEN "reversion" ELSE "edit"]
    /\ UNCHANGED <<vvars, gvars, pvars, mvars, runner, company_name, trimmed_object, handed, version, latest_saved_version, regenerations, company_dir, fvars, uvars>>

\* version = current_version + 1, then the same search
RegenerateFindVersion(r) ==
    /\ pc[r] = "reversion"
    /\ version' = [version EXCEPT ![r] =
                      NextFree(company_name[r], latest_saved_version[r] + 1)]
    /\ pc' = [pc EXCEPT ![r] = "recopy"]
    /\ UNCHANGED <<vvars, gvars, pvars, mvars, runner, company_name, trimmed_object, handed, latest_saved_version, runs, regenerations, output_dir, company_dir, fvars, uvars>>

RegenerateCopyPdf(r) ==
    /\ pc[r] = "recopy"
    /\ version[r] \in Versions
    /\ company_dir' = CopiedPdf(r)
    /\ pc' = [pc EXCEPT ![r] = "rejson"]
    /\ UNCHANGED <<vvars, gvars, pvars, mvars, runner, company_name, trimmed_object, handed, version, latest_saved_version, runs, regenerations, output_dir, fvars, uvars>>

RegenerateSaveJson(r) ==
    /\ pc[r] = "rejson"
    /\ company_dir' = SavedJson(r)
    /\ latest_saved_version' = [latest_saved_version EXCEPT ![r] = version[r]]
    /\ pc' = [pc EXCEPT ![r] = "edit"]
    /\ UNCHANGED <<vvars, gvars, pvars, mvars, runner, company_name, trimmed_object, handed, version, runs, regenerations, output_dir, fvars, uvars>>

SessionsNext ==
    \E r \in Runs :
        \/ SelectContent(r)
        \/ SaveTrimmedJson(r)
        \/ FillTemplate(r)
        \/ CompilePass1(r)
        \/ CompilePass2(r)
        \/ RunLualatex(r)
        \/ FindVersion(r)
        \/ CopyPdf(r)
        \/ SaveVersionedJson(r)
        \/ EditSelection(r)
        \/ RegenerateFill(r)
        \/ RegenerateCompile(r)
        \/ RegenerateFindVersion(r)
        \/ RegenerateCopyPdf(r)
        \/ RegenerateSaveJson(r)

SpecSessions == SessionsInit /\ [][SessionsNext]_vars

(***************************************************************************)
(* C21.  The TrimmedSelection created by the parser for one job            *)
(* description is never modified afterwards: validation returns it         *)
(* unchanged, rendering does not alter it, and later edits on the edit and *)
(* regenerate page are applied to a copy, so the object handed to the      *)
(* renderer stays equal to the parser's output.                            *)
(***************************************************************************)
C21_SelectionNeverModified ==
    \A r \in Runs :
        /\ trimmed_object[r] # NoFile => trimmed_object[r] = ParserOutput(r)
        /\ handed[r] # NoFile => handed[r] = ParserOutput(r)

(***************************************************************************)
(* C22.  Two generate actions running concurrently in independent UI       *)
(* sessions share no mutable state: for every interleaving of their steps  *)
(* (save trimmed JSON, fill template, compile, copy PDF to the versioned   *)
(* folder), the document and the JSON saved for each session derive from   *)
(* that session's own TrimmedSelection.                                    *)
(***************************************************************************)
C22_SessionsShareNothing ==
    \A c \in CompanyNames, v \in Versions :
        /\ company_dir[c][v].pdf_by # "none" =>
              company_dir[c][v].pdf.owner = company_dir[c][v].pdf_by
        /\ company_dir[c][v].json_by # "none" =>
              company_dir[c][v].json.owner = company_dir[c][v].json_by

(***************************************************************************)
(* C24.  For every document that is produced, the external compiler is run *)
(* twice on the filled source, the second run only after the first exited  *)
(* with code zero; a non-zero exit of either run makes the compile step    *)
(* report failure with a tail of the log and yields no PDF.                *)
(***************************************************************************)
\* the compile step of the run has succeeded: the document is produced
DocumentProduced(r) ==
    pc[r] \in {"done", "version", "copy", "json", "reversion", "recopy", "rejson"}

C24_CompiledTwice ==
    \A r \in Runs :
        /\ DocumentProduced(r) => runs[r] = 2
        /\ pc[r] = "pass2" => runs[r] = 1

(***************************************************************************)
(* C25.  Within one company folder, every save (first generation and each  *)
(* regeneration) uses an integer suffix for which no versioned PDF exists  *)
(* yet, so that no previously saved versioned PDF or JSON is ever          *)
(* overwritten and the suffixes used by successive saves strictly          *)
(* increase.                                                               *)
(***************************************************************************)
\* the folder's highest suffix in use, 0 in an empty folder
Highest(folder) ==
    IF \E v \in Versions : folder[v].pdf # NoFile
    THEN CHOOSE v \in Versions :
             /\ folder[v].pdf # NoFile
             /\ \A w \in Versions : folder[w].pdf # NoFile => w <= v
    ELSE 0

NeverOverwritten ==
    \A c \in CompanyNames, v \in Versions :
        /\ company_dir[c][v].pdf_by # "none" =>
              /\ company_dir'[c][v].pdf = company_dir[c][v].pdf
              /\ company_dir'[c][v].pdf_by = company_dir[c][v].pdf_by
        /\ company_dir[c][v].json_by # "none" =>
              /\ company_dir'[c][v].json = company_dir[c][v].json
              /\ company_dir'[c][v].json_by = company_dir[c][v].json_by

SuffixesIncrease ==
    \A c \in CompanyNames :
        Highest(company_dir'[c]) # Highest(company_dir[c]) =>
            Highest(company_dir'[c]) > Highest(company_dir[c])

SavesAboveHighest ==
    \A r \in Runs :
        (pc[r] \in {"copy", "recopy"} /\ pc'[r] \in {"json", "rejson"}) =>
            version[r] > Highest(company_dir[company_name[r]])

C25_FreshSuffixEverySave ==
    [][NeverOverwritten /\ SuffixesIncrease /\ SavesAboveHighest]_vars

(***************************************************************************)
(* The renderer: escape_latex_special_chars and fill_latex_template of     *)
(* fill_latex_template_v2.py.  A string is the sequence of its characters; *)
(* a control word of a replacement, such as textbackslash, is one element. *)
(* The data handed over holds one entry per collection, and every string   *)
(* of it that the user supplies is user_text; the template is held as the  *)
(* insertions made into it, in order.                                      *)
(***************************************************************************)
MaxLen == 2             \* characters of the user's string

Backslash == "\\"

\* text.replace(old, new) for a character old
RECURSIVE Replace(_, _, _)
Replace(str, old, new) ==
    IF str = << >> THEN << >>
    ELSE (IF Head(str) = old THEN new ELSE <<Head(str)>>)
             \o Replace(Tail(str), old, new)

\* the replacements of escape_latex_special_chars, in the order it makes them
Replacements ==
    <<[old |-> Backslash, new |-> <<Backslash, "textbackslash", "{", "}">>],
      [old |-> "{", new |-> <<Backslash, "{">>],
      [old |-> "}", new |-> <<Backslash, "}">>],
      [old |-> "$", new |-> <<Backslash, "$">>],
      [old |-> "&", new |-> <<Backslash, "&">>],
      [old |-> "#", new |-> <<Backslash, "#">>],
      [old |-> "%", new |-> <<Backslash, "%">>],
      [old |-> "_", new |-> <<Backslash, "_">>],
      [old |-> "~", new |-> <<Backslash, "textasciitilde", "{", "}">>],
      [old |-> "^", new |-> <<Backslash, "textasciicircum", "{", "}">>]>>

RECURSIVE ReplaceAll(_, _)
ReplaceAll(str, steps) ==
    IF steps = << >> THEN str
    ELSE ReplaceAll(Replace(str, Head(steps).old, Head(steps).new), Tail(steps))

escape_latex_special_chars(str) == ReplaceAll(str, Replacements)

\* str.upper()
Upper(str) == [i \in DOMAIN str |-> IF str[i] = "a" THEN "A" ELSE str[i]]

\* the strings of the model: over the reserved characters and a letter
Alphabet == {Replacements[i].old : i \in DOMAIN Replacements} \cup {"a"}
UserTexts == SeqsUpTo(Alphabet, MaxLen)

Layouts == [skills : {"list", "dict"}, summaries : {"list", "dict"},
            links : {"list", "fields"}, settings : {"default", "custom"}]

\* the title of a section: display_settings' own, or the default's
SectionTitle(default) == IF layout.settings = "custom" THEN user_text ELSE default

\* an insertion: the text inserted at the field, the string of the data it
\* was made from, and whether the data supplied that string or a default did
Inserted(field, str, value, supplied) ==
    [field |-> field, text |-> str, value |-> value, supplied |-> supplied]
EscapedField(field) ==
    Inserted(field, escape_latex_special_chars(user_text), user_text, TRUE)
RawField(field) == Inserted(field, user_text, user_text, TRUE)
TitleField(field, default) ==
    Inserted(field, SectionTitle(default), SectionTitle(default),
             layout.settings = "custom")

\* the heading of a section: its comment line and its \section{...}
Heading(field, default) ==
    <<Inserted(<<field, "comment">>, Upper(SectionTitle(default)),
               SectionTitle(default), layout.settings = "custom"),
      TitleField(<<field, "title">>, default)>>

FillInit ==
    /\ user_text \in UserTexts
    /\ layout \in Layouts
    /\ template = << >>
    /\ fill_pc = "static"
    /\ full_resume_data = CorpusDefaults
    /\ trimmed_data = Null
    /\ verdict = NotRun
    /\ GenerationIdle
    /\ ParserIdle
    /\ NormalizationIdle
    /\ SessionsIdle
    /\ UsersIdle

\* 1. static info, 1.1 font settings
FillStaticInfo ==
    /\ fill_pc = "static"
    /\ template' = template \o
          <<EscapedField(<<"NAME">>),
            EscapedField(<<"ADDRESS">>),
            EscapedField(<<"PHONE">>),
            EscapedField(<<"EMAIL">>),
            TitleField(<<"FONT_FAMILY">>, <<"Lato">>)>>
    /\ fill_pc' = "links"
    /\ UNCHANGED <<vvars, gvars, pvars, mvars, svars, user_text, layout, uvars>>

\* the links: an array of {title, url}, or the old separate fields
FillLinks ==
    /\ fill_pc = "links"
    /\ template' = template \o
          (IF layout.links = "list"
           THEN (IF user_text # << >>
                 THEN <<RawField(<<"LINKS", "url">>),
                        EscapedField(<<"LINKS", "title">>)>>
                 ELSE << >>)
           ELSE <<RawField(<<"LINKEDIN", "url">>),
                  RawField(<<"LEETCODE", "url">>),
                  RawField(<<"PORTFOLIO", "url">>)>>)
    /\ fill_pc' = "summary"
    /\ UNCHANGED <<vvars, gvars, pvars, mvars, svars, user_text, layout, uvars>>

\* build_summary_section
BuildSummarySection ==
    /\ fill_pc = "summary"
    /\ template' = template \o
          (IF user_text # << >>
           THEN Heading("summary", <<"Professional Summary">>)
                    \o <<EscapedField(<<"summary", "text">>)>>
           ELSE << >>)
    /\ fill_pc' = "skills"
    /\ UNCHANGED <<vvars, gvars, pvars, mvars, svars, user_text, layout, uvars>>

\* build_skills_section: one section, or one category, with one item
BuildSkillsSection ==
    /\ fill_pc = "skills"
    /\ template' = template \o
          Heading("skills", <<"Technical Skills">>)
          \o <<IF layout.skills = "list" THEN RawField(<<"skills", "category">>)
                ELSE TitleField(<<"skills", "category">>, <<"Languages">>),
               EscapedField(<<"skills", "items">>)>>
    /\ fill_pc' = "experience"
    /\ UNCHANGED <<vvars, gvars, pvars, mvars, svars, user_text, layout, uvars>>

\* build_experience_section: one company with one bullet
BuildExperienceSection ==
    /\ fill_pc = "experience"
    /\ template' = template \o
          Heading("experience", <<"Professional Experience">>)
          \o <<EscapedField(<<"experience", "position">>),
               EscapedField(<<"experience", "dates">>),
               EscapedField(<<"experience", "name">>),
               EscapedField(<<"experience", "location">>),
               EscapedField(<<"experience", "bullet">>)>>
    /\ fill_pc' = "projects"
    /\ UNCHANGED <<vvars, gvars, pvars, mvars, svars, user_text, layout, uvars>>

\* build_projects_section: one project, with its link when it has one
BuildProjectsSection ==
    /\ fill_pc = "projects"
    /\ template' = template \o
          Heading("projects", <<"Personal Projects">>)
          \o <<EscapedField(<<"projects", "name">>),
               EscapedField(<<"projects", "description">>),
               EscapedField(<<"projects", "tech">>),
               EscapedField(<<"projects", "date">>)>>
          \o (IF user_text # << >>
              THEN <<RawField(<<"projects", "url">>)>> ELSE << >>)
    /\ fill_pc' = "education"
    /\ UNCHANGED <<vvars, gvars, pvars, mvars, svars, user_text, layout, uvars>>

\* build_education_section: one entry; then the template is written
BuildEducationSection ==
    /\ fill_pc = "education"
    /\ template' = template \o
          Heading("education", <<"Education">>)
          \o <<EscapedField(<<"education", "degree">>),
               EscapedField(<<"education", "dates">>),
               EscapedField(<<"education", "course">>),
               EscapedField(<<"education", "location">>),
               EscapedField(<<"education", "institution">>)>>
    /\ fill_pc' = "written"
    /\ UNCHANGED <<vvars, gvars, pvars, mvars, svars, user_text, layout, uvars>>

FillNext ==
    \/ FillStaticInfo
    \/ FillLinks
    \/ BuildSummarySection
    \/ BuildSkillsSection
    \/ BuildExperienceSection
    \/ BuildProjectsSection
    \/ BuildEducationSection

SpecFill == FillInit /\ [][FillNext]_vars

(***************************************************************************)
(* C23.  Every user-supplied string that fill_latex_template inserts into  *)
(* the document (contact fields, link titles, summary text, company fields *)
(* and bullets, skill titles and items, project fields, education fields,  *)
(* section titles from display settings) has first been passed through     *)
(* escape_latex_special_chars; hyperlink targets are the only strings      *)
(* inserted raw.                                                           *)
(***************************************************************************)
\* what escaping is to yield: each character's own escape sequence
EscapeSequence(ch) ==
    IF \E i \in DOMAIN Replacements : Replacements[i].old = ch
    THEN Replacements[CHOOSE i \in DOMAIN Replacements : Replacements[i].old = ch].new
    ELSE <<ch>>

RECURSIVE Escaped(_)
Escaped(str) ==
    IF str = << >> THEN << >> ELSE EscapeSequence(Head(str)) \o Escaped(Tail(str))

IsHyperlinkTarget(field) == field[Len(field)] = "url"

C23_UserStringsEscaped ==
    \A i \in DOMAIN template :
        (template[i].supplied /\ ~IsHyperlinkTarget(template[i].field)) =>
            template[i].text = escape_latex_special_chars(template[i].value)

(***************************************************************************)
(* C28.  escape_latex_special_chars replaces each reserved character of    *)
(* its input (backslash, braces, $, &, #, %, underscore, tilde, caret) by  *)
(* that character's own escape sequence and changes nothing else: text     *)
(* introduced by one replacement step, such as the braces of              *)
(* \textbackslash{}, is not altered by a later step, and a string without  *)
(* reserved characters is returned unchanged.                              *)
(***************************************************************************)
C28_EachCharacterEscapedOnce ==
    \A i \in DOMAIN template :
        template[i].field = <<"NAME">> => template[i].text = Escaped(user_text)

(***************************************************************************)
(* C27.  For a corpus in which the sum of the per-company minimum bullet   *)
(* counts exceeds the total-bullet maximum, no selection is reported       *)
(* valid: none passes the company-set check, every per-company check and   *)
(* the total-bullet check together.                                        *)
(***************************************************************************)
MinimaExceedTotal ==
    /\ "companies" \in DOMAIN full_resume_data
    /\ Sum([id \in CorpusIds |-> CompanyMin(id)], CorpusIds) > TotalMax

C27_InfeasibleNeverValid ==
    (Called /\ MinimaExceedTotal) =>
        /\ ~verdict.is_valid
        /\ DataModelShaped =>
              /\ ReturnedVerdict
              /\ ~(CompanySetOk /\ PerCompanyOk /\ TotalOk)
              /\ verdict.issues # << >>

\* every company listed once with a count within its own bounds, and all else
\* in order: the total alone is out of range
C27_Witness ==
    /\ Called
    /\ MinimaExceedTotal
    /\ DataModelShaped
    /\ CompanySetOk /\ PerCompanyOk /\ ProjectsOk /\ SkillsOk /\ SummaryOk
    /\ Cardinality(CorpusIds) = 2
    /\ Len(SelCompanies) = 2
    /\ ReturnedVerdict
    /\ IssuesOf("total_bullets") # {}

(***************************************************************************)
(* C29.  _validate_response reports is_valid = True only for selections in *)
(* which every corpus company appears exactly once: a selection that lists *)
(* the same company id twice is reported invalid even when its id set      *)
(* equals the corpus id set and all counts are within bounds.              *)
(***************************************************************************)
Listings(id) == {i \in DOMAIN SelCompanies : SelCompanies[i].id = id}

C29_EachCompanyOnce ==
    (ReturnedVerdict /\ DataModelShaped /\ verdict.is_valid) =>
        \A id \in CorpusIds : Cardinality(Listings(id)) = 1

(***************************************************************************)
(* C26.  For every constrained quantity (total bullets, each company's     *)
(* bullets, each skill section's items, project count) and every corpus,   *)
(* the [min,max] that _validate_response enforces equals the [min,max]     *)
(* that _build_prompt_with_caching states in the request, also when fields *)
(* are missing and defaults apply: a selection that satisfies every bound  *)
(* stated in the request is never reported invalid for a bound, and one    *)
(* that breaks a stated bound is never reported valid.                     *)
(***************************************************************************)
\* the instructions of the request for the corpus
Stated == SystemInstructions(full_resume_data, FALSE)

Within(n, bound) == bound.min <= n /\ n <= bound.max

\* the item counts the selection holds under a stated section title
CountsUnder(title) ==
    IF CanonicalSkills
    THEN {SelSkills.v[i].items : i \in {j \in DOMAIN SelSkills.v :
                                          SelSkills.v[j].title = title}}
    ELSE IF Lower(title) \in DOMAIN SelSkills.v THEN {SelSkills.v[Lower(title)]}
         ELSE {}

SatisfiesStated ==
    /\ Stated.total_min <= TotalBullets /\ TotalBullets <= Stated.total_max
    /\ \A i \in DOMAIN SelCompanies, k \in DOMAIN Stated.company_constraints :
          SelCompanies[i].id = Stated.company_constraints[k].id =>
              Within(SelCompanies[i].bullets, Stated.company_constraints[k])
    /\ Stated.projects_min <= trimmed_data.v.projects.v
    /\ trimmed_data.v.projects.v <= Stated.projects_max
    /\ \A k \in DOMAIN Stated.skills_constraints :
          \A n \in CountsUnder(Stated.skills_constraints[k].title) :
              Within(n, Stated.skills_constraints[k])

BoundIssues ==
    IssuesOf("total_bullets") \cup IssuesOf("company_bullets")
        \cup IssuesOf("projects") \cup IssuesOf("skill")

C26_StatedBoundsAreEnforced ==
    (ReturnedVerdict /\ DataModelShaped) =>
        /\ SatisfiesStated => BoundIssues = {}
        /\ ~SatisfiesStated => ~verdict.is_valid


(***************************************************************************)
(* The global configuration and its users (config_manager.py).  A user    *)
(* name is a sequence of characters.  global_config is the file           *)
(* global_config.json; None and the empty string, which the code does not *)
(* tell apart (not config.get('current_user')), are both NoUser.          *)
(***************************************************************************)
AVAILABLE_MODELS ==
    {"claude-sonnet-4-20250514", "claude-3-5-sonnet-20241022",
     "claude-opus-4-20250514", "claude-3-5-haiku-20241022"}

\* DEFAULT_GLOBAL_CONFIG as the process holds it: dict.copy() is shallow, so
\* every copy of it shares the one list object default_users
DEFAULT_GLOBAL_CONFIG ==
    [stored |-> TRUE, anthropic_api_key |-> "",
     selected_model |-> "claude-sonnet-4-20250514",
     users |-> default_users, current_user |-> NoUser]

\* the characters c of the model with c.isalnum()
Alnum == {"a", "b"}

\* username.strip().replace(' ', '_'), then the characters that are
\* alphanumeric or '_'
Sanitize(username) ==
    LET stripped == Strip(username)
        replaced == [i \in DOMAIN stripped |->
                        IF stripped[i] = " " THEN "_" ELSE stripped[i]]
    IN  SelectSeq(replaced, LAMBDA c : c \in Alnum \/ c = "_")

\* the names and arguments the calls are made with
UserNames ==
    {<< >>, <<"a">>, <<"b">>, <<" ", "a">>, <<"a", " ", "b">>, <<"a", "!">>,
     <<"a", "_", "b">>, <<"!">>}
ApiKeys == {"sk-ant-1", "sk-ant-2"}
ModelNames == {"claude-sonnet-4-20250514", "claude-3-5-haiku-20241022", "gpt-4"}

\* load_global_config: a missing file is created from DEFAULT_GLOBAL_CONFIG
\* and a copy of the default is returned; otherwise the file is read
load_global_config ==
    IF ~global_config.stored THEN DEFAULT_GLOBAL_CONFIG ELSE global_config

\* create_user from the membership test on: the value returned and the
\* configuration the file holds afterwards
create_user_unchecked(config, username) ==
    [value |-> "True",
     config |-> [config EXCEPT
                    !.users = Append(@, username),
                    !.current_user = IF @ = NoUser THEN username ELSE @]]
create_user(config, username) ==
    IF username \in Range(config.users)
    THEN [value |-> "False", config |-> config]
    ELSE [value |-> "True",
          config |-> [config EXCEPT
                         !.users = Append(@, username),
                         !.current_user = IF @ = NoUser THEN username ELSE @]]

\* switch_user: the name is looked up as given
switch_user(config, username) ==
    IF username \notin Range(config.users)
    THEN [value |-> "False", config |-> config]
    ELSE [value |-> "True", config |-> [config EXCEPT !.current_user = username]]

UsersInit ==
    /\ full_resume_data = CorpusDefaults
    /\ trimmed_data = Null
    /\ verdict = NotRun
    /\ GenerationIdle
    /\ ParserIdle
    /\ NormalizationIdle
    /\ SessionsIdle
    /\ FillIdle
    /\ global_config \in
          {[stored |-> FALSE],
           [stored |-> TRUE, anthropic_api_key |-> "sk-ant-1",
            selected_model |-> "claude-opus-4-20250514",
            users |-> <<<<"b">>>>, current_user |-> <<"b">>]}
    /\ default_users = << >>
    /\ user_dirs = IF global_config.stored THEN Range(global_config.users) ELSE {}
    /\ returned = NoCall

\* create_user(name)
CreateUser(name) ==
    LET username == Sanitize(name)
        config == load_global_config
        done == create_user(config, username)
    IN  IF username = << >>
        THEN /\ returned' = [op |-> "create_user", arg |-> name, value |-> "ValueError"]
             /\ UNCHANGED <<global_config, default_users, user_dirs, uvars>>
        ELSE /\ global_config' = done.config
             /\ default_users' = IF global_config.stored THEN default_users
                                  ELSE done.config.users
             /\ user_dirs' = IF done.value = "True" THEN user_dirs \cup {username}
                              ELSE user_dirs
             /\ returned' = [op |-> "create_user", arg |-> name, value |-> done.value]

\* switch_user(name)
SwitchUser(name) ==
    LET done == switch_user(load_global_config, name)
    IN  /\ global_config' = done.config
        /\ returned' = [op |-> "switch_user", arg |-> name, value |-> done.value]
        /\ UNCHANGED <<default_users, user_dirs, uvars>>

\* initialize_first_user(name, api_key, model)
InitializeFirstUser(name, key, model) ==
    LET username == Sanitize(name)
        created == create_user(load_global_config, username)
    IN  IF username = << >> \/ model \notin AVAILABLE_MODELS
        THEN /\ returned' = [op |-> "initialize_first_user", arg |-> name,
                             value |-> "ValueError"]
             /\ UNCHANGED <<global_config, default_users, user_dirs, uvars>>
        ELSE /\ global_config' = [created.config EXCEPT
                                     !.anthropic_api_key = key,
                                     !.selected_model = model,
                                     !.current_user = username]
             /\ default_users' = IF global_config.stored THEN default_users
                                  ELSE created.config.users
             /\ user_dirs' = IF created.value = "True" THEN user_dirs \cup {username}
                              ELSE user_dirs
             /\ returned' = [op |-> "initialize_first_user", arg |-> name,
                             value |-> "None"]

UsersNext ==
    /\ \/ \E name \in UserNames : CreateUser(name)
       \/ \E name \in UserNames : SwitchUser(name)
       \/ \E name \in UserNames, key \in ApiKeys, model \in ModelNames :
              InitializeFirstUser(name, key, model)
    /\ UNCHANGED <<vvars, gvars, pvars, mvars, svars, fvars>>

SpecUsers == UsersInit /\ [][UsersNext]_vars

\* what the file holds for the users: a missing file reads as the default
StoredUsers == IF global_config.stored THEN global_config.users ELSE << >>
StoredCurrent == IF global_config.stored THEN global_config.current_user ELSE NoUser

NoDuplicates(s) == \A i, j \in DOMAIN s : s[i] = s[j] => i = j

StoredConsistent ==
    /\ StoredCurrent = NoUser \/ StoredCurrent \in Range(StoredUsers)
    /\ NoDuplicates(StoredUsers)

\* a call that is refused: create_user of a name the list holds, switch_user
\* to a name it does not hold
Refused ==
    \/ returned'.op = "create_user" /\ returned'.arg \in Range(StoredUsers)
    \/ returned'.op = "switch_user" /\ returned'.arg \notin Range(StoredUsers)

RefusalsChangeNothing ==
    Refused => /\ returned'.value = "False"
               /\ StoredUsers' = StoredUsers
               /\ StoredCurrent' = StoredCurrent

=============================================================================
